---- MODULE Spec2Model ----
(***************************************************************************)
(* A model of xolotlSolver::PetscSolver1DHandler, the one-dimensional      *)
(* per-point assembly driver (PetscSolver1DHandler.cpp).  Every MPI        *)
(* partition of the grid owns one handler, one reaction network and one    *)
(* set of process handlers; the partitions meet only in MPI_Allreduce.     *)
(* Each call the handler makes on the network, on a process handler or on  *)
(* the matrix is recorded, in program order, in the partition's log.       *)
(***************************************************************************)
EXTENDS Integers, Sequences, FiniteSets, TLC

\* ------------------------------------------------------------------ bounds
\* Number of grid points nx read from the file header (createSolverContext).
NX == 4
\* Number of MPI partitions of the grid.
NumParts == 2
\* Number of evaluation calls the time stepper makes in a run.
MaxCalls == 2
\* Number of advection handlers in advectionHandlers.
NumAdvec == 2

\* The distance to the surface within which helium is summed (line 287).
NearSurface == 2

Parts == 0 .. (NumParts - 1)
Points == 0 .. (NX - 1)

\* ------------------------------------------------------- the reaction network
\* The reactants of the network by id: the concrete clusters, then the super
\* clusters.  id is the 1-based id, he the helium
\* composition, mom the momentum id of a super cluster (0 for the others).
allReactants ==
    << [type |-> "He",    id |-> 1, he |-> 1, mom |-> 0],
       [type |-> "V",     id |-> 2, he |-> 0, mom |-> 0],
       [type |-> "I",     id |-> 3, he |-> 0, mom |-> 0],
       [type |-> "HeV",   id |-> 4, he |-> 1, mom |-> 0],
       [type |-> "HeV",   id |-> 5, he |-> 2, mom |-> 0],
       [type |-> "Super", id |-> 6, he |-> 0, mom |-> 7] >>

\* network->getAll(type)
getAll(type) == SelectSeq(allReactants, LAMBDA r : r.type = type)

\* network->size()
networkSize == Len(allReactants)

superClusters == getAll("Super")

bubbles == getAll("HeV")

\* dof = network->size() + number of super clusters
dof == networkSize + Len(superClusters)

DOFs == 0 .. (dof - 1)

\* dFillMap: for every DOF index, the ordered list of the column indices in
\* which its row of partial derivatives is nonzero (getDiagonalFill).
dFillMap ==
    [d \in DOFs |->
        CASE d = 0 -> << 0, 1, 3 >>
          [] d = 1 -> << 1, 0, 2, 4 >>
          [] d = 2 -> << 2, 1 >>
          [] d = 3 -> << 3, 0, 1 >>
          [] d = 4 -> << 4, 3, 0 >>
          [] d = 5 -> << 5, 6, 4 >>
          [] OTHER -> << 6, 5 >>]

\* ---------------------------------------------------------------- inputs
\* The list that lists the reactants by increasing id: the super clusters
\* are its last entries.
ById == [i \in 1 .. networkSize |-> i]

\* The lists network->getAll() may return: by id, with the super cluster
\* first, with the super cluster among the concrete clusters, and with two
\* concrete clusters exchanged.
ReactantOrders ==
    { ById,
      << 6, 1, 2, 3, 4, 5 >>,
      << 1, 2, 6, 3, 4, 5 >>,
      << 2, 1, 3, 4, 5, 6 >> }

\* The temperature handler: a profile over position and time.
Profiles == {"zero", "const", "space", "time"}

getTemperature(profile, position, time) ==
    CASE profile = "zero"  -> 0
      [] profile = "const" -> 1
      [] profile = "space" -> 1 + (position % 2)
      [] OTHER             -> 1 + time

\* xolotlCore::equal
equal(a, b) == a = b

\* The local concentration vector handed to evaluation call c: the solution
\* has moved on between two calls.
localC(c) ==
    [xi \in Points |->
        [d \in DOFs |-> ((xi + 1) * (d + 1) + c.no * (xi + 2 * d + 1)) % 3]]

\* What the output vector F holds when updateConcentration is entered.
enteringF(c) == [xi \in Points |-> [d \in DOFs |-> 7 + c.no + d]]

Ops == {"updateConcentration", "computeOffDiagonalJacobian",
        "computeDiagonalJacobian"}

Times == {0, 1}

\* What the time stepper may ask for in one evaluation call; only
\* updateConcentration takes the solver time.
CallInputs ==
    [op : {"updateConcentration"}, ftime : Times]
    \cup [op : Ops \ {"updateConcentration"}, ftime : {0}]

\* The solver time of an evaluation call: the one the time stepper hands to
\* updateConcentration; a Jacobian pass, which is not handed one, is asked
\* for at the solver time of the evaluation before it (the start time 0 when
\* there is none).
SolverTime(i, last) ==
    IF i.op = "updateConcentration" THEN i.ftime ELSE last.ftime

\* The ways DMDA splits the grid into contiguous, non-empty, owned ranges:
\* the first owned point of every partition.
Corners ==
    {st \in [Parts -> Points] :
        /\ st[0] = 0
        /\ \A p \in Parts \ {0} : st[p] > st[p - 1]}

VARIABLES
    \* configuration, fixed before the solver context is created
    movingSurface, portion, hx, temperatureHandler, corners,
    \* fields of the PetscSolver1DHandler of each partition
    lastTemperature, surfacePosition, grid, clusterPartials,
    \* the collaborators of each partition
    network, mutationHandler, burstingHandler, advectionLocation,
    \* the output vector of the last updateConcentration of each partition
    F,
    \* the calls each partition made in its last operation, in order
    log,
    \* control: where each partition is, and the collective reduction
    pc, cur, heConc, totalHeConc, nReduce, callNo,
    \* how many calls of updateConcentration and of computeDiagonalJacobian
    \* each partition has entered
    nReducing,
    \* the evaluation calls decided by the time stepper and not yet begun by
    \* every partition, and how many were decided in all
    calls, nDecided,
    \* the HDF5 network file, the size of the smallest vacancy cluster of the
    \* network and the configured initial vacancy concentration
    networkFile, vacancySize, initialVConc,
    \* the order in which network->getAll() lists the reactants: the ids, by
    \* position in the list
    getAllOrder,
    \* the concentration vector initializeConcentration fills, per partition
    C,
    \* the connectivity test of the vacancy cluster: the reactants of the
    \* simple network, the loop variables of its constructor, where the test
    \* is, the array it got, the index it checks and whether a check failed
    reactants, numHe, numV, numI, tpc, reactionConnectivity, testI, failed

cfgVars == << movingSurface, portion, hx, temperatureHandler, corners,
              networkFile, vacancySize, initialVConc, getAllOrder >>

handlerVars == << lastTemperature, surfacePosition, grid, clusterPartials,
                  network, mutationHandler, burstingHandler,
                  advectionLocation, F, log >>

ctlVars == << pc, cur, heConc, totalHeConc, nReduce, callNo, nReducing, calls,
             nDecided >>

testVars == << reactants, numHe, numV, numI, tpc, reactionConnectivity, testI,
               failed >>

vars == << cfgVars, handlerVars, ctlVars, C, testVars >>

\* DMDAGetCorners
xs(p) == corners[p]

xm(p) == (IF p = NumParts - 1 THEN NX ELSE corners[p + 1]) - corners[p]

\* ------------------------------------------------- one partition's objects
\* The handler of partition p and its collaborators, as one record.
Pack(p) ==
    [lastTemperature   |-> lastTemperature[p],
     surfacePosition   |-> surfacePosition[p],
     grid              |-> grid[p],
     clusterPartials   |-> clusterPartials[p],
     network           |-> network[p],
     mutationHandler   |-> mutationHandler[p],
     burstingHandler   |-> burstingHandler[p],
     advectionLocation |-> advectionLocation[p],
     F                 |-> F[p],
     log               |-> log[p]]

\* The record of one call: what was called, at which grid point, with which
\* argument, and what the network and the handler held when it was made.
Ev(s, call, xi, arg, cols, vals) ==
    [call   |-> call,
     xi     |-> xi,
     arg    |-> arg,
     cols   |-> cols,
     vals   |-> vals,
     loaded |-> s.network.loaded,
     netT   |-> s.network.temperature,
     lastT  |-> s.lastTemperature,
     rateT  |-> << s.mutationHandler.rateT, s.burstingHandler.rateT >>,
     clean  |-> \A d \in DOMAIN s.clusterPartials : s.clusterPartials[d] = 0]

Call(s, call, xi, arg) ==
    [s EXCEPT !.log = Append(@, Ev(s, call, xi, arg, << >>, << >>))]

\* MatSetValuesStencil(J, 1, &row, n, cols, vals, ADD_VALUES)
MatSetValuesStencil(s, what, xi, row, cols, vals) ==
    [s EXCEPT !.log = Append(@, Ev(s, what, xi, row, cols, vals))]

\* The temperature of a network no temperature was applied to, and the rate
\* of a handler whose rate was never computed.
Never == 0 - 1

\* network->setTemperature(temperature)
setTemperature(s, xi, temperature) ==
    [Call(s, "setTemperature", xi, << temperature >>)
        EXCEPT !.network.temperature = temperature]

\* network->reinitializeConnectivities()
reinitializeConnectivities(s) ==
    [Call(s, "reinitializeConnectivities", -1, << >>)
        EXCEPT !.network.nReinit = @ + 1]

\* mutationHandler->updateTrapMutationRate(network): the rate follows the
\* rate constants the network holds now.
updateTrapMutationRate(s, xi) ==
    [Call(s, "updateTrapMutationRate", xi, << >>)
        EXCEPT !.mutationHandler.rateT = s.network.temperature]

\* burstingHandler->updateBurstingRate(network)
updateBurstingRate(s, xi) ==
    [Call(s, "updateBurstingRate", xi, << >>)
        EXCEPT !.burstingHandler.rateT = s.network.temperature]

\* network->updateConcentrationsFromArray(concOffset) for point xi of call c
updateConcentrationsFromArray(s, xi, c) ==
    [Call(s, "updateConcentrationsFromArray", xi, << >>)
        EXCEPT !.network.conc = localC(c)[xi],
               !.network.loaded = << c.no, xi >>]

\* generateGrid(nx, hx, surfacePosition)
generateGrid(nx, h) == [i \in 0 .. (nx - 1) |-> i * h]

\* xSize = grid.size()
xSize(s) == Cardinality(DOMAIN s.grid)

\* ------------------------------------------------------ createSolverContext
\* Lines 13-24: reset the cached temperature and apply the initial one.
InitialTemperature(s) ==
    LET s0 == [s EXCEPT !.lastTemperature = 0]
        temperature == getTemperature(temperatureHandler, 0, 0)
    IN  IF ~equal(temperature, s0.lastTemperature)
        THEN [setTemperature(s0, -1, temperature)
                 EXCEPT !.lastTemperature = temperature]
        ELSE s0

\* Lines 53-71: the surface, the grid, the sink of the first advection
\* handler and the scratch buffer of partial derivatives.
SetUpGrid(s) ==
    LET sp == IF movingSurface THEN (NX * portion) \div 100 ELSE 0
        g  == generateGrid(NX, hx)
    IN  [s EXCEPT !.surfacePosition = sp,
                  !.grid = g,
                  !.advectionLocation[0] = g[sp],
                  !.clusterPartials = [d \in DOFs |-> 0]]

\* Lines 96-107: the process handlers are initialized.
InitializeHandlers(s) ==
    LET s1 == Call(s, "diffusionHandler.initializeOFill", -1, << >>)
        s2 == Call(s1, "advectionHandlers.initialize", -1, << >>)
        s3 == Call(s2, "mutationHandler.initialize", -1, << >>)
        s4 == Call(s3, "mutationHandler.initializeIndex1D", -1, << >>)
    IN  Call(s4, "burstingHandler.initialize", -1, << >>)

\* Mutant: the connectivities are reinitialized before the initial
\* temperature is applied.
createSolverContext_ReinitFirst(s) ==
    InitializeHandlers(SetUpGrid(InitialTemperature(
        reinitializeConnectivities([s EXCEPT !.log = << >>]))))

createSolverContext(s) ==
    InitializeHandlers(SetUpGrid(reinitializeConnectivities(
        InitialTemperature([s EXCEPT !.log = << >>]))))

\* -------------------------------------------------- initializeConcentration
\* HDF5Utils::hasConcentrationGroup(networkName, tempTimeStep)
hasConcentrationGroup == networkFile.hasConcentrationGroup

\* HDF5Utils::readSurface1D(networkName, tempTimeStep)
readSurface1D == networkFile.surface1D

\* HDF5Utils::readGridPoint(networkName, tempTimeStep, i): the list of the
\* (DOF index, value) pairs stored for grid point i
readGridPoint(i) == networkFile.gridPoints[i]

\* network->get(vType, 1): the single vacancy cluster, or none (null)
singleVacancyCluster == IF vacancySize = 1 THEN getAll("V") ELSE << >>

\* Lines 175-177
vacancyIndex ==
    IF Len(singleVacancyCluster) > 0 THEN singleVacancyCluster[1].id - 1 ELSE 0 - 1

RECURSIVE SeedLoop_SeedsBoundary(_, _, _, _)
\* Mutant: the vacancy concentration is seeded at every owned point.
SeedLoop_SeedsBoundary(s, concentrations, i, xend) ==
    IF i >= xend THEN concentrations
    ELSE LET zeroed == [concentrations EXCEPT ![i] = [n \in DOFs |-> 0]]
             seeded == IF Len(singleVacancyCluster) > 0
                       THEN [zeroed EXCEPT ![i][vacancyIndex] = initialVConc]
                       ELSE zeroed
         IN  SeedLoop_SeedsBoundary(s, seeded, i + 1, xend)

RECURSIVE SeedLoop(_, _, _, _)
\* Lines 180-192: every owned point is zeroed, and the vacancy concentration
\* is set at the active ones.
SeedLoop(s, concentrations, i, xend) ==
    IF i >= xend THEN concentrations
    ELSE LET zeroed == [concentrations EXCEPT ![i] = [n \in DOFs |-> 0]]
             seeded == IF /\ i > s.surfacePosition
                          /\ i < xSize(s) - 1
                          /\ Len(singleVacancyCluster) > 0
                       THEN [zeroed EXCEPT ![i][vacancyIndex] = initialVConc]
                       ELSE zeroed
         IN  SeedLoop(s, seeded, i + 1, xend)

RECURSIVE StorePairs(_, _, _)
\* Lines 206-209: the pairs read for one grid point are stored.
StorePairs(concOffset, concVector, l) ==
    IF l >= Len(concVector) THEN concOffset
    ELSE StorePairs([concOffset EXCEPT ![concVector[l + 1][1]] = concVector[l + 1][2]],
                    concVector, l + 1)

RECURSIVE SnapshotLoop(_, _, _, _, _)
\* Lines 197-211: the loop on the full grid.
SnapshotLoop(s, concentrations, i, first, count) ==
    IF i >= xSize(s) THEN concentrations
    ELSE LET concVector == readGridPoint(i)
         IN  SnapshotLoop(s,
                 IF i >= first /\ i < first + count
                 THEN [concentrations EXCEPT ![i] = StorePairs(@, concVector, 0)]
                 ELSE concentrations,
                 i + 1, first, count)

\* Lines 128-222: the handler and the concentration vector afterwards.
initializeConcentration(s, concentrations, first, count) ==
    LET s0 == [s EXCEPT !.log = << >>]
        s1 == IF hasConcentrationGroup
              THEN [s0 EXCEPT !.surfacePosition = readSurface1D]
              ELSE s0
        s2 == Call(s1, "fluxHandler.initializeFluxHandler", -1, << >>)
        s3 == Call(s2, "diffusionHandler.initializeDiffusionGrid", -1, << >>)
        s4 == Call(s3, "advectionHandlers.initializeAdvectionGrid", -1, << >>)
        seeded == SeedLoop(s4, concentrations, first, first + count)
    IN  [s |-> s4,
         concentrations |-> IF hasConcentrationGroup
                            THEN SnapshotLoop(s4, seeded, 0, first, count)
                            ELSE seeded]

\* ------------------------------------------------ the per-point preliminaries
\* Mutant: the last grid point is not a boundary point.
IsBoundary_SurfaceOnly(s, xi) == xi <= s.surfacePosition

\* The boundary test of every per-point loop.
IsBoundary(s, xi) == xi <= s.surfacePosition \/ xi = xSize(s) - 1

\* Mutant: the temperature applied is not cached.
RefreshTemperature_NoCache(s, xi, time) ==
    LET temperature == getTemperature(temperatureHandler, s.grid[xi], time)
        s0 == Call(s, "getTemperature", xi, << temperature >>)
    IN  IF ~equal(temperature, s0.lastTemperature)
        THEN LET s1 == setTemperature(s0, xi, temperature)
                 s2 == updateTrapMutationRate(s1, xi)
             IN  updateBurstingRate(s2, xi)
        ELSE s0

\* Mutant: the rates are refreshed before the network gets its temperature.
RefreshTemperature_RatesFirst(s, xi, time) ==
    LET temperature == getTemperature(temperatureHandler, s.grid[xi], time)
        s0 == Call(s, "getTemperature", xi, << temperature >>)
    IN  IF ~equal(temperature, s0.lastTemperature)
        THEN LET s1 == updateTrapMutationRate(s0, xi)
                 s2 == updateBurstingRate(s1, xi)
                 s3 == setTemperature(s2, xi, temperature)
             IN  [s3 EXCEPT !.lastTemperature = temperature]
        ELSE s0

\* Lines 338-350, 472-484, 653-665: the temperature at the point, and the
\* refresh of the network and of the rates when it changed.
RefreshTemperature(s, xi, time) ==
    LET temperature == getTemperature(temperatureHandler, s.grid[xi], time)
        s0 == Call(s, "getTemperature", xi, << temperature >>)
    IN  IF ~equal(temperature, s0.lastTemperature)
        THEN LET s1 == setTemperature(s0, xi, temperature)
                 s2 == updateTrapMutationRate(s1, xi)
                 s3 == updateBurstingRate(s2, xi)
             IN  [s3 EXCEPT !.lastTemperature = temperature]
        ELSE s0

\* ---------------------------------------------------- the process handlers
\* The DOF indices the handlers touch.
fluxIndex == allReactants[1].id - 1

diffusing == << 0, 1 >>

advecting == << 0 >>

\* fluxHandler->getIncidentFluxVec(ftime, surfacePosition)
getIncidentFluxVec(ftime, sp) == [k \in 0 .. NX |-> 1 + k + ftime]

AddTo(row, d, v) == [row EXCEPT ![d] = @ + v]

RECURSIVE AddAll(_, _, _, _)
\* row with f[d] added at every index d of the list ds, from position i on
AddAll(row, ds, f, i) ==
    IF i > Len(ds) THEN row
    ELSE AddAll(AddTo(row, ds[i], f[ds[i]]), ds, f, i + 1)

\* diffusionHandler->computeDiffusion(network, concVector, updatedConcOffset, ...)
computeDiffusion(s, xi, concs) ==
    LET f == [d \in DOFs |-> concs[xi - 1][d] + concs[xi + 1][d] - 2 * concs[xi][d]]
    IN  [Call(s, "computeDiffusion", xi, << >>)
            EXCEPT !.F[xi] = AddAll(@, diffusing, f, 1)]

\* advectionHandlers[l]->computeAdvection(network, gridPosition, concVector, ...)
computeAdvection(s, l, xi, concs) ==
    LET f == [d \in DOFs |-> (l + 1) * (concs[xi + 1][d] - concs[xi][d])]
    IN  [Call(s, "computeAdvection", xi, << l >>)
            EXCEPT !.F[xi] = AddAll(@, advecting, f, 1)]

\* mutationHandler->computeTrapMutation(network, concOffset, updatedConcOffset, xi)
computeTrapMutation(s, xi, concs) ==
    LET v == concs[xi][0] * (1 + s.mutationHandler.disappearingRate)
    IN  [Call(s, "computeTrapMutation", xi, << >>)
            EXCEPT !.F[xi] = AddTo(AddTo(AddTo(@, 0, 0 - v), 3, v), 2, v)]

\* burstingHandler->computeBursting(network, xi, concOffset, updatedConcOffset)
computeBursting(s, xi, concs) ==
    LET v == concs[xi][3] + concs[xi][4]
    IN  [Call(s, "computeBursting", xi, << >>)
            EXCEPT !.F[xi] = AddTo(AddTo(AddTo(@, 3, 0 - concs[xi][3]),
                                         4, 0 - concs[xi][4]), 1, v)]

\* cluster->getTotalFlux(): computed from what the network holds
getTotalFlux(s, cluster) ==
    s.network.conc[cluster.id - 1] * (1 + s.network.temperature)
        - s.network.conc[cluster.id % networkSize]

\* superCluster->getMomentumFlux()
getMomentumFlux(s, superCluster) ==
    1 + s.network.conc[superCluster.mom - 1] + s.network.conc[superCluster.id - 1]

\* ------------------------------------------------------ updateConcentration
\* Mutant: the boundary point adds its concentrations to what F held.
BoundaryPoint_Adds(s, xi, concs) ==
    [s EXCEPT !.F[xi] = [i \in DOFs |-> @[i] + 1 * concs[xi][i]]]

\* Lines 322-328: a boundary point passes its concentrations through.
BoundaryPoint(s, xi, concs) ==
    [s EXCEPT !.F[xi] = [i \in DOFs |-> 1 * concs[xi][i]]]

\* Line 360: the incident flux.
IncidentFlux(s, xi, c) ==
    [Call(s, "incidentFlux", xi, << >>)
        EXCEPT !.F[xi] = AddTo(@, fluxIndex,
                   getIncidentFluxVec(c.ftime, s.surfacePosition)[xi - s.surfacePosition])]

RECURSIVE AdvectionLoop(_, _, _, _)
\* Lines 367-370
AdvectionLoop(s, l, xi, concs) ==
    IF l >= NumAdvec THEN s
    ELSE AdvectionLoop(computeAdvection(s, l, xi, concs), l + 1, xi, concs)

\* allReactants->at(i), allReactants being what network->getAll() returned
\* to createSolverContext (line 33).
allReactantsAt(i) == allReactants[getAllOrder[i + 1]]

RECURSIVE FluxLoop_Overwrites(_, _, _)
\* Mutant: the reaction flux is stored in the output vector, not added to it.
FluxLoop_Overwrites(s, i, xi) ==
    IF i >= networkSize THEN s
    ELSE LET cluster == allReactantsAt(i)
             flux == getTotalFlux(s, cluster)
             reactantIndex == cluster.id - 1
         IN  FluxLoop_Overwrites([Call(s, "getTotalFlux", xi, << reactantIndex >>)
                                     EXCEPT !.F[xi][reactantIndex] = flux],
                                 i + 1, xi)

RECURSIVE FluxLoop(_, _, _)
\* Lines 381-388
FluxLoop(s, i, xi) ==
    IF i >= networkSize THEN s
    ELSE LET cluster == allReactantsAt(i)
             flux == getTotalFlux(s, cluster)
             reactantIndex == cluster.id - 1
         IN  FluxLoop([Call(s, "getTotalFlux", xi, << reactantIndex >>)
                          EXCEPT !.F[xi] = AddTo(@, reactantIndex, flux)],
                      i + 1, xi)

RECURSIVE MomentLoop(_, _, _)
\* Lines 391-402
MomentLoop(s, i, xi) ==
    IF i >= Len(superClusters) THEN s
    ELSE LET superCluster == superClusters[i + 1]
             flux == getMomentumFlux(s, superCluster)
             reactantIndex == superCluster.mom - 1
         IN  MomentLoop([Call(s, "getMomentumFlux", xi, << reactantIndex >>)
                            EXCEPT !.F[xi] = AddTo(@, reactantIndex, flux)],
                        i + 1, xi)

\* Mutant: the network is loaded at the first point it ever sees only.
ActivePoint_LoadsOnce(s, xi, c) ==
    LET concs == localC(c)
        s1 == RefreshTemperature(s, xi, c.ftime)
        s2 == IF s1.network.loaded[1] = 0
              THEN updateConcentrationsFromArray(s1, xi, c) ELSE s1
        s3 == IncidentFlux(s2, xi, c)
        s4 == computeDiffusion(s3, xi, concs)
        s5 == AdvectionLoop(s4, 0, xi, concs)
        s6 == computeTrapMutation(s5, xi, concs)
        s7 == computeBursting(s6, xi, concs)
        s8 == FluxLoop(s7, 0, xi)
    IN  MomentLoop(s8, 0, xi)

\* Mutant: the concentrations are ingested before the temperature is
\* refreshed.
ActivePoint_IngestFirst(s, xi, c) ==
    LET concs == localC(c)
        s1 == updateConcentrationsFromArray(s, xi, c)
        s2 == RefreshTemperature(s1, xi, c.ftime)
        s3 == IncidentFlux(s2, xi, c)
        s4 == computeDiffusion(s3, xi, concs)
        s5 == AdvectionLoop(s4, 0, xi, concs)
        s6 == computeTrapMutation(s5, xi, concs)
        s7 == computeBursting(s6, xi, concs)
        s8 == FluxLoop(s7, 0, xi)
    IN  MomentLoop(s8, 0, xi)

\* Mutant: the trap-mutation is computed before the advection.
ActivePoint_MutationFirst(s, xi, c) ==
    LET concs == localC(c)
        s1 == RefreshTemperature(s, xi, c.ftime)
        s2 == updateConcentrationsFromArray(s1, xi, c)
        s3 == IncidentFlux(s2, xi, c)
        s4 == computeDiffusion(s3, xi, concs)
        s5 == computeTrapMutation(s4, xi, concs)
        s6 == AdvectionLoop(s5, 0, xi, concs)
        s7 == computeBursting(s6, xi, concs)
        s8 == FluxLoop(s7, 0, xi)
    IN  MomentLoop(s8, 0, xi)

\* Lines 330-402: an active point.
ActivePoint(s, xi, c) ==
    LET concs == localC(c)
        s1 == RefreshTemperature(s, xi, c.ftime)
        s2 == updateConcentrationsFromArray(s1, xi, c)
        s3 == IncidentFlux(s2, xi, c)
        s4 == computeDiffusion(s3, xi, concs)
        s5 == AdvectionLoop(s4, 0, xi, concs)
        s6 == computeTrapMutation(s5, xi, concs)
        s7 == computeBursting(s6, xi, concs)
        s8 == FluxLoop(s7, 0, xi)
    IN  MomentLoop(s8, 0, xi)

RECURSIVE updateConcentrationLoop(_, _, _, _)
\* Lines 315-403: the loop over the owned grid points.
updateConcentrationLoop(s, xi, xend, c) ==
    IF xi >= xend THEN s
    ELSE updateConcentrationLoop(
             IF IsBoundary(s, xi) THEN BoundaryPoint(s, xi, localC(c))
             ELSE ActivePoint(s, xi, c),
             xi + 1, xend, c)

\* ------------------------------------------------- the helium near the surface
RECURSIVE HeliumPoints(_, _, _, _, _, _, _)
\* Lines 282-294: the loop over the owned grid points, for one bubble.
HeliumPoints(s, concs, index, heComp, xi, xend, acc) ==
    IF xi >= xend THEN acc
    ELSE IF IsBoundary(s, xi)
         THEN HeliumPoints(s, concs, index, heComp, xi + 1, xend, acc)
    ELSE IF s.grid[xi] - s.grid[s.surfacePosition] > NearSurface
         THEN HeliumPoints(s, concs, index, heComp, xi + 1, xend, acc)
    ELSE HeliumPoints(s, concs, index, heComp, xi + 1, xend,
             acc + concs[xi][index] * heComp * (s.grid[xi] - s.grid[xi - 1]))

RECURSIVE HeliumBubbles(_, _, _, _, _, _)
\* Lines 266-295, 589-618: the loop over the HeV bubbles.
HeliumBubbles(s, concs, i, first, count, acc) ==
    IF i >= Len(bubbles) THEN acc
    ELSE LET bubble == bubbles[i + 1]
         IN  HeliumBubbles(s, concs, i + 1, first, count,
                 HeliumPoints(s, concs, bubble.id - 1, bubble.he,
                              first, first + count, acc))

\* Mutant: the sum runs over the ghost point to the left of the owned range
\* as well.
LocalHelium_CountsGhost(s, c, first, count) ==
    [heConc |-> HeliumBubbles(s, localC(c), 0,
                    IF first > 0 THEN first - 1 ELSE first,
                    IF first > 0 THEN count + 1 ELSE count, 0),
     pc     |-> "reduce"]

\* Mutant: a partition that owns no active point returns its own sum and
\* does not enter the reduction.
LocalHelium_SkipsWhenIdle(s, c, first, count) ==
    [heConc |-> HeliumBubbles(s, localC(c), 0, first, count, 0),
     pc     |-> IF \A xi \in first .. (first + count - 1) : IsBoundary(s, xi)
                THEN "reduced" ELSE "reduce"]

\* Lines 265-299, 588-622: the partition's own sum, handed to MPI_Allreduce.
\* The partition then waits in the reduction.
LocalHelium(s, c, first, count) ==
    [heConc |-> HeliumBubbles(s, localC(c), 0, first, count, 0),
     pc     |-> "reduce"]

\* mutationHandler->updateDisappearingRate(totalHeConc), lines 302, 625
updateDisappearingRate(s, conc) ==
    [Call(s, "updateDisappearingRate", -1, << conc >>)
        EXCEPT !.mutationHandler.disappearingRate = conc]

\* Lines 301-422: what updateConcentration does once the reduction returned.
updateConcentration(s, c, first, count, total) ==
    updateConcentrationLoop(
        updateDisappearingRate(s, total),
        first, first + count, c)

\* ------------------------------------------------ computeOffDiagonalJacobian
\* diffusionHandler->computePartialsForDiffusion: three values per diffusing
\* cluster (middle, left, right).
computePartialsForDiffusion(s, xi) ==
    [k \in 1 .. (3 * Len(diffusing)) |->
        10 * k + (s.grid[xi + 1] - s.grid[xi - 1]) + s.network.temperature]

\* advectionHandlers[l]->computePartialsForAdvection: two values per
\* advecting cluster.
computePartialsForAdvection(s, l, xi) ==
    [k \in 1 .. (2 * Len(advecting)) |-> 100 * (l + 1) + k + s.network.temperature]

\* advectionHandlers[l]->isPointOnSink(gridPosition)
isPointOnSink(s, l, position) == position = s.advectionLocation[l]

\* advectionHandlers[l]->getStencilForAdvection(gridPosition)
getStencilForAdvection(s, l, position) ==
    IF l = 0 \/ isPointOnSink(s, l, position) THEN << 1, 0, 0 >>
    ELSE IF position > s.advectionLocation[l] THEN << -1, 0, 0 >>
    ELSE << 1, 0, 0 >>

RECURSIVE DiffusionRows_SameValues(_, _, _, _)
\* Mutant: every row takes the first three values of diffVals.
DiffusionRows_SameValues(s, i, xi, diffVals) ==
    IF i >= Len(diffusing) THEN s
    ELSE LET c == diffusing[i + 1]
             row == << xi, c >>
             cols == << << xi, c >>, << xi - 1, c >>, << xi + 1, c >> >>
         IN  DiffusionRows_SameValues(
                 MatSetValuesStencil(s, "MatSetValuesStencil.diffusion", xi, row,
                     cols, SubSeq(diffVals, 1, 3)),
                 i + 1, xi, diffVals)

RECURSIVE DiffusionRows(_, _, _, _)
\* Lines 491-508: one row of three entries per diffusing cluster.
DiffusionRows(s, i, xi, diffVals) ==
    IF i >= Len(diffusing) THEN s
    ELSE LET c == diffusing[i + 1]
             row == << xi, c >>
             cols == << << xi, c >>, << xi - 1, c >>, << xi + 1, c >> >>
         IN  DiffusionRows(
                 MatSetValuesStencil(s, "MatSetValuesStencil.diffusion", xi, row,
                     cols, SubSeq(diffVals, 3 * i + 1, 3 * i + 3)),
                 i + 1, xi, diffVals)

RECURSIVE AdvectionRows_NoSink(_, _, _, _, _)
\* Mutant: a point on the sink is treated as any other point.
AdvectionRows_NoSink(s, l, i, xi, advecVals) ==
    IF i >= Len(advecting) THEN s
    ELSE LET c == advecting[i + 1]
             advecStencil == getStencilForAdvection(s, l, s.grid[xi])
             row == << xi, c >>
             cols == << << xi, c >>, << xi + advecStencil[1], c >> >>
         IN  AdvectionRows_NoSink(
                 MatSetValuesStencil(s, "MatSetValuesStencil.advection", xi, row,
                     cols, SubSeq(advecVals, 2 * i + 1, 2 * i + 2)),
                 l, i + 1, xi, advecVals)

RECURSIVE AdvectionRows(_, _, _, _, _)
\* Lines 522-548: one row of two entries per advecting cluster of handler l.
AdvectionRows(s, l, i, xi, advecVals) ==
    IF i >= Len(advecting) THEN s
    ELSE LET c == advecting[i + 1]
             advecStencil == getStencilForAdvection(s, l, s.grid[xi])
             row == << xi, c >>
             cols == IF isPointOnSink(s, l, s.grid[xi])
                     THEN << << xi - advecStencil[1], c >>,
                             << xi + advecStencil[1], c >> >>
                     ELSE << << xi, c >>, << xi + advecStencil[1], c >> >>
         IN  AdvectionRows(
                 MatSetValuesStencil(s, "MatSetValuesStencil.advection", xi, row,
                     cols, SubSeq(advecVals, 2 * i + 1, 2 * i + 2)),
                 l, i + 1, xi, advecVals)

RECURSIVE AdvectionPartials(_, _, _)
\* Lines 511-549: the loop over the advection handlers.
AdvectionPartials(s, l, xi) ==
    IF l >= NumAdvec THEN s
    ELSE LET s1 == Call(s, "computePartialsForAdvection", xi, << l >>)
         IN  AdvectionPartials(
                 AdvectionRows(s1, l, 0, xi, computePartialsForAdvection(s1, l, xi)),
                 l + 1, xi)

\* Lines 469-549: an active point of computeOffDiagonalJacobian.
OffDiagonalPoint(s, xi) ==
    LET s1 == RefreshTemperature(s, xi, 0)
        s2 == Call(s1, "computePartialsForDiffusion", xi, << >>)
        s3 == DiffusionRows(s2, 0, xi, computePartialsForDiffusion(s2, xi))
    IN  AdvectionPartials(s3, 0, xi)

RECURSIVE OffDiagonalLoop(_, _, _)
\* Lines 464-550
OffDiagonalLoop(s, xi, xend) ==
    IF xi >= xend THEN s
    ELSE OffDiagonalLoop(IF IsBoundary(s, xi) THEN s ELSE OffDiagonalPoint(s, xi),
                         xi + 1, xend)

computeOffDiagonalJacobian(s, c, first, count) ==
    OffDiagonalLoop([s EXCEPT !.log = << >>], first, first + count)

\* --------------------------------------------------- computeDiagonalJacobian
\* The partial derivative of row's flux with respect to column col, computed
\* from what the network holds.
PartialValue(s, row, col) == 1 + row + 2 * s.network.conc[col]

RECURSIVE AddPartials(_, _, _, _)
AddPartials(s, partials, row, j) ==
    IF j > Len(dFillMap[row]) THEN partials
    ELSE AddPartials(s,
             AddTo(partials, dFillMap[row][j], PartialValue(s, row, dFillMap[row][j])),
             row, j + 1)

\* reactant->getPartialDerivatives(clusterPartials) and
\* reactant->getMomentPartialDerivatives(clusterPartials): the partial
\* derivatives of the row are added into the scratch buffer, at the columns
\* of the row's column map.
getPartialDerivatives(s, what, xi, row) ==
    [Call(s, what, xi, << row >>)
        EXCEPT !.clusterPartials = AddPartials(s, @, row, 1)]

RECURSIVE CopyOut_NoReset(_, _, _, _)
\* Mutant: the entries are copied out and left in the scratch buffer.
CopyOut_NoReset(partials, pdColIdsVector, j, reacting) ==
    IF j >= Len(pdColIdsVector) THEN [partials |-> partials, reacting |-> reacting]
    ELSE CopyOut_NoReset(partials, pdColIdsVector, j + 1,
                         Append(reacting, partials[pdColIdsVector[j + 1]]))

RECURSIVE CopyOut(_, _, _, _)
\* Lines 689-699, 725-736, 755-766: every listed entry of the scratch buffer
\* is copied to reactingPartialsForCluster and reset.
CopyOut(partials, pdColIdsVector, j, reacting) ==
    IF j >= Len(pdColIdsVector) THEN [partials |-> partials, reacting |-> reacting]
    ELSE CopyOut([partials EXCEPT ![pdColIdsVector[j + 1]] = 0],
                 pdColIdsVector, j + 1,
                 Append(reacting, partials[pdColIdsVector[j + 1]]))

\* Lines 684-704: the row reactantIndex is transcribed into the matrix.
TranscribeRow(s, xi, reactantIndex) ==
    LET pdColIdsVector == dFillMap[reactantIndex]
        r == CopyOut(s.clusterPartials, pdColIdsVector, 0, << >>)
        colIds == [j \in 1 .. Len(pdColIdsVector) |-> << xi, pdColIdsVector[j] >>]
    IN  MatSetValuesStencil([s EXCEPT !.clusterPartials = r.partials],
            "MatSetValuesStencil.reactions", xi, << xi, reactantIndex >>,
            colIds, r.reacting)

RECURSIVE ReactantRows(_, _, _)
\* Lines 673-705: the rows of the concrete reactants.
ReactantRows(s, i, xi) ==
    IF i >= networkSize - Len(superClusters) THEN s
    ELSE LET reactantIndex == allReactantsAt(i).id - 1
         IN  ReactantRows(
                 TranscribeRow(
                     getPartialDerivatives(s, "getPartialDerivatives", xi, reactantIndex),
                     xi, reactantIndex),
                 i + 1, xi)

RECURSIVE SuperClusterRows(_, _, _)
\* Lines 708-771: the row of every super cluster and of its moment.
SuperClusterRows(s, i, xi) ==
    IF i >= Len(superClusters) THEN s
    ELSE LET reactant == superClusters[i + 1]
             s1 == TranscribeRow(
                       getPartialDerivatives(s, "getPartialDerivatives", xi,
                                             reactant.id - 1),
                       xi, reactant.id - 1)
             s2 == TranscribeRow(
                       getPartialDerivatives(s1, "getMomentPartialDerivatives", xi,
                                             reactant.mom - 1),
                       xi, reactant.mom - 1)
         IN  SuperClusterRows(s2, i + 1, xi)

\* mutationHandler->computePartialsForTrapMutation: the helium clusters that
\* trap-mutate at xi, as triples (He, HeV, I) of indices and of values.
computePartialsForTrapMutation(s, xi) ==
    IF xi - s.surfacePosition <= 2
    THEN [n |-> 1, indices |-> << 0, 3, 2 >>,
          vals |-> << 0 - (1 + s.mutationHandler.disappearingRate),
                      1 + s.mutationHandler.disappearingRate,
                      1 + s.mutationHandler.disappearingRate >>]
    ELSE [n |-> 0, indices |-> << >>, vals |-> << >>]

\* burstingHandler->computePartialsForBursting: the bubbles that burst at xi,
\* as pairs (bubble, V) of indices and of values.
computePartialsForBursting(s, xi) ==
    [n |-> Len(bubbles),
     indices |-> << 3, 1, 4, 1 >>,
     vals |-> << -3, 3, -4, 4 >>]

RECURSIVE TrapMutationRows_Diagonal(_, _, _, _)
\* Mutant: every trap-mutation entry is put on the diagonal of its row.
TrapMutationRows_Diagonal(s, i, xi, m) ==
    IF i >= m.n THEN s
    ELSE LET s1 == MatSetValuesStencil(s, "MatSetValuesStencil.trapMutation", xi,
                       << xi, m.indices[3 * i + 1] >>,
                       << << xi, m.indices[3 * i + 1] >> >>,
                       << m.vals[3 * i + 1] >>)
             s2 == MatSetValuesStencil(s1, "MatSetValuesStencil.trapMutation", xi,
                       << xi, m.indices[3 * i + 2] >>,
                       << << xi, m.indices[3 * i + 2] >> >>,
                       << m.vals[3 * i + 2] >>)
             s3 == MatSetValuesStencil(s2, "MatSetValuesStencil.trapMutation", xi,
                       << xi, m.indices[3 * i + 3] >>,
                       << << xi, m.indices[3 * i + 3] >> >>,
                       << m.vals[3 * i + 3] >>)
         IN  TrapMutationRows_Diagonal(s3, i + 1, xi, m)

RECURSIVE TrapMutationRows(_, _, _, _)
\* Lines 786-816: three entries per trap-mutating helium cluster.
TrapMutationRows(s, i, xi, m) ==
    IF i >= m.n THEN s
    ELSE LET col == << xi, m.indices[3 * i + 1] >>
             s1 == MatSetValuesStencil(s, "MatSetValuesStencil.trapMutation", xi,
                       << xi, m.indices[3 * i + 1] >>, << col >>,
                       << m.vals[3 * i + 1] >>)
             s2 == MatSetValuesStencil(s1, "MatSetValuesStencil.trapMutation", xi,
                       << xi, m.indices[3 * i + 2] >>, << col >>,
                       << m.vals[3 * i + 2] >>)
             s3 == MatSetValuesStencil(s2, "MatSetValuesStencil.trapMutation", xi,
                       << xi, m.indices[3 * i + 3] >>, << col >>,
                       << m.vals[3 * i + 3] >>)
         IN  TrapMutationRows(s3, i + 1, xi, m)

RECURSIVE BurstingRows(_, _, _, _)
\* Lines 830-851: two entries per bursting bubble.
BurstingRows(s, i, xi, b) ==
    IF i >= b.n THEN s
    ELSE LET col == << xi, b.indices[2 * i + 1] >>
             s1 == MatSetValuesStencil(s, "MatSetValuesStencil.bursting", xi,
                       << xi, b.indices[2 * i + 1] >>, << col >>,
                       << b.vals[2 * i + 1] >>)
             s2 == MatSetValuesStencil(s1, "MatSetValuesStencil.bursting", xi,
                       << xi, b.indices[2 * i + 2] >>, << col >>,
                       << b.vals[2 * i + 2] >>)
         IN  BurstingRows(s2, i + 1, xi, b)

\* Lines 650-851: an active point of computeDiagonalJacobian.
DiagonalPoint(s, xi, c) ==
    LET s1 == RefreshTemperature(s, xi, 0)
        s2 == updateConcentrationsFromArray(s1, xi, c)
        s3 == ReactantRows(s2, 0, xi)
        s4 == SuperClusterRows(s3, 0, xi)
        s5 == Call(s4, "computePartialsForTrapMutation", xi, << >>)
        s6 == TrapMutationRows(s5, 0, xi, computePartialsForTrapMutation(s5, xi))
        s7 == Call(s6, "computePartialsForBursting", xi, << >>)
    IN  BurstingRows(s7, 0, xi, computePartialsForBursting(s7, xi))

RECURSIVE DiagonalLoop_SkipsSurfaceOnly(_, _, _, _)
\* Mutant: the last grid point is treated as an active point.
DiagonalLoop_SkipsSurfaceOnly(s, xi, xend, c) ==
    IF xi >= xend THEN s
    ELSE DiagonalLoop_SkipsSurfaceOnly(
             IF xi <= s.surfacePosition THEN s ELSE DiagonalPoint(s, xi, c),
             xi + 1, xend, c)

RECURSIVE DiagonalLoop(_, _, _, _)
\* Lines 645-852
DiagonalLoop(s, xi, xend, c) ==
    IF xi >= xend THEN s
    ELSE DiagonalLoop(IF IsBoundary(s, xi) THEN s ELSE DiagonalPoint(s, xi, c),
                      xi + 1, xend, c)

\* Lines 624-865: what computeDiagonalJacobian does once the reduction returned.
computeDiagonalJacobian(s, c, first, count, total) ==
    DiagonalLoop(updateDisappearingRate(s, total),
                 first, first + count, c)

\* ------------------------------------------------------------------- state
NoCall == [op |-> "none", ftime |-> 0, no |-> 0]

\* The surface options: a fixed surface, or a moving one at a percentage of
\* the grid.
Surfaces == { << FALSE, 0 >>, << TRUE, 25 >> }

\* The network file of a run that starts cold: no concentration group.
NoFile ==
    [hasConcentrationGroup |-> FALSE,
     surface1D             |-> 0,
     gridPoints            |-> [i \in Points |-> << >>]]

\* What the concentration vector holds before it is initialized.
enteringC == [xi \in Points |-> [d \in DOFs |-> 9]]

\* The handlers before createSolverContext, for any configuration.
InitHandlers ==
    /\ \E sf \in Surfaces : movingSurface = sf[1] /\ portion = sf[2]
    /\ hx \in {1, 2}
    /\ temperatureHandler \in Profiles
    /\ corners \in Corners
    /\ lastTemperature = [p \in Parts |-> 0]
    /\ surfacePosition = [p \in Parts |-> 0]
    /\ grid = [p \in Parts |-> << >>]
    /\ clusterPartials = [p \in Parts |-> << >>]
    /\ network = [p \in Parts |->
                     [temperature |-> Never,
                      conc        |-> [d \in DOFs |-> 0],
                      loaded      |-> << 0, Never >>,
                      nReinit     |-> 0]]
    /\ mutationHandler = [p \in Parts |-> [rateT |-> Never, disappearingRate |-> 0]]
    /\ burstingHandler = [p \in Parts |-> [rateT |-> Never]]
    /\ advectionLocation = [p \in Parts |-> [l \in 0 .. (NumAdvec - 1) |-> (l + 1) * hx]]
    /\ F = [p \in Parts |-> [xi \in Points |-> [d \in DOFs |-> 0]]]
    /\ log = [p \in Parts |-> << >>]
    /\ pc = [p \in Parts |-> "new"]
    /\ cur = [p \in Parts |-> NoCall]
    /\ heConc = [p \in Parts |-> 0]
    /\ totalHeConc = [p \in Parts |-> 0]
    /\ nReduce = [p \in Parts |-> 0]
    /\ callNo = [p \in Parts |-> 0]
    /\ nReducing = [p \in Parts |-> 0]
    /\ calls = << >>
    /\ nDecided = 0
    /\ C = [p \in Parts |-> enteringC]
    /\ reactants = << >>
    /\ numHe = 1
    /\ numV = 1
    /\ numI = 1
    /\ tpc = "He"
    /\ reactionConnectivity = << >>
    /\ testI = 0
    /\ failed = FALSE

\* A cold start of a network with a single vacancy.
Init ==
    /\ InitHandlers
    /\ networkFile = NoFile
    /\ vacancySize = 1
    /\ initialVConc = 0
    /\ getAllOrder = ById

\* The objects of partition p become s.
Store(p, s) ==
    /\ lastTemperature' = [lastTemperature EXCEPT ![p] = s.lastTemperature]
    /\ surfacePosition' = [surfacePosition EXCEPT ![p] = s.surfacePosition]
    /\ grid' = [grid EXCEPT ![p] = s.grid]
    /\ clusterPartials' = [clusterPartials EXCEPT ![p] = s.clusterPartials]
    /\ network' = [network EXCEPT ![p] = s.network]
    /\ mutationHandler' = [mutationHandler EXCEPT ![p] = s.mutationHandler]
    /\ burstingHandler' = [burstingHandler EXCEPT ![p] = s.burstingHandler]
    /\ advectionLocation' = [advectionLocation EXCEPT ![p] = s.advectionLocation]
    /\ F' = [F EXCEPT ![p] = s.F]
    /\ log' = [log EXCEPT ![p] = s.log]

\* The evaluation call partition p makes next: the one the time stepper
\* already decided, or a new one.  Every partition makes the same calls, and
\* none before every partition has created its solver context (DMDACreate1d
\* on PETSC_COMM_WORLD is collective).
NextCalls(p) ==
    IF \E q \in Parts : pc[q] = "new" THEN {}
    ELSE IF callNo[p] < nDecided
    THEN {calls[i] : i \in {j \in DOMAIN calls : calls[j].no = callNo[p] + 1}}
    ELSE IF nDecided < MaxCalls
    THEN {[op |-> i.op, ftime |-> SolverTime(i, cur[p]), no |-> nDecided + 1] :
              i \in CallInputs}
    ELSE {}

\* Partition p enters call c.
Enter(p, c) ==
    LET cn == [callNo EXCEPT ![p] = c.no]
        decided == IF c.no > nDecided THEN Append(calls, c) ELSE calls
    IN  /\ callNo' = cn
        /\ nReducing' = [nReducing EXCEPT ![p] =
                             IF c.op = "computeOffDiagonalJacobian" THEN @ ELSE @ + 1]
        /\ nDecided' = IF c.no > nDecided THEN c.no ELSE nDecided
        /\ calls' = SelectSeq(decided, LAMBDA e : \E q \in Parts : cn[q] < e.no)
        /\ cur' = [cur EXCEPT ![p] = c]

\* Partition p hands its sum r to MPI_Allreduce.
Contribute(p, r) ==
    /\ heConc' = [heConc EXCEPT ![p] = r.heConc]
    /\ pc' = [pc EXCEPT ![p] = r.pc]
    /\ nReduce' = [nReduce EXCEPT ![p] = IF r.pc = "reduce" THEN @ + 1 ELSE @]
    /\ totalHeConc' = [totalHeConc EXCEPT ![p] = IF r.pc = "reduce" THEN @ ELSE r.heConc]

RECURSIVE SumOver(_, _)
SumOver(f, S) ==
    IF S = {} THEN 0
    ELSE LET x == CHOOSE y \in S : TRUE IN f[x] + SumOver(f, S \ {x})

\* ----------------------------------------------------------------- actions
CreateSolverContext(p) ==
    /\ pc[p] = "new"
    /\ Store(p, createSolverContext(Pack(p)))
    /\ pc' = [pc EXCEPT ![p] = "ready"]
    /\ cur' = [cur EXCEPT ![p] = [NoCall EXCEPT !.op = "createSolverContext"]]
    /\ UNCHANGED << cfgVars, testVars, C, heConc, totalHeConc, nReduce, callNo, nReducing, calls,
                    nDecided >>

\* initializeConcentration, called on the created context before the time
\* stepper starts.
InitializeConcentration(p) ==
    /\ pc[p] = "ready"
    /\ cur[p].op = "createSolverContext"
    /\ LET r == initializeConcentration(Pack(p), C[p], xs(p), xm(p))
       IN  /\ Store(p, r.s)
           /\ C' = [C EXCEPT ![p] = r.concentrations]
    /\ pc' = [pc EXCEPT ![p] = "started"]
    /\ cur' = [cur EXCEPT ![p] = [NoCall EXCEPT !.op = "initializeConcentration"]]
    /\ UNCHANGED << cfgVars, testVars, heConc, totalHeConc, nReduce, callNo, nReducing, calls,
                    nDecided >>

\* updateConcentration up to and including its call of MPI_Allreduce
UpdateConcentrationBegin(p) ==
    /\ pc[p] = "ready"
    /\ \E c \in NextCalls(p) :
        /\ c.op = "updateConcentration"
        /\ Enter(p, c)
        /\ Contribute(p, LocalHelium(Pack(p), c, xs(p), xm(p)))
        /\ F' = [F EXCEPT ![p] = enteringF(c)]
    /\ log' = [log EXCEPT ![p] = << >>]
    /\ UNCHANGED << cfgVars, testVars, C, lastTemperature, surfacePosition, grid, clusterPartials,
                    network, mutationHandler, burstingHandler, advectionLocation >>

\* updateConcentration after MPI_Allreduce returned
UpdateConcentrationEnd(p) ==
    /\ pc[p] = "reduced"
    /\ cur[p].op = "updateConcentration"
    /\ Store(p, updateConcentration(Pack(p), cur[p], xs(p), xm(p), totalHeConc[p]))
    /\ pc' = [pc EXCEPT ![p] = "ready"]
    /\ UNCHANGED << cfgVars, testVars, C, cur, heConc, totalHeConc, nReduce, callNo, nReducing,
                    calls, nDecided >>

ComputeOffDiagonalJacobian(p) ==
    /\ pc[p] = "ready"
    /\ \E c \in NextCalls(p) :
        /\ c.op = "computeOffDiagonalJacobian"
        /\ Enter(p, c)
        /\ Store(p, computeOffDiagonalJacobian(Pack(p), c, xs(p), xm(p)))
    /\ UNCHANGED << cfgVars, testVars, C, pc, heConc, totalHeConc, nReduce >>

\* computeDiagonalJacobian up to and including its call of MPI_Allreduce
ComputeDiagonalJacobianBegin(p) ==
    /\ pc[p] = "ready"
    /\ \E c \in NextCalls(p) :
        /\ c.op = "computeDiagonalJacobian"
        /\ Enter(p, c)
        /\ Contribute(p, LocalHelium(Pack(p), c, xs(p), xm(p)))
    /\ log' = [log EXCEPT ![p] = << >>]
    /\ UNCHANGED << cfgVars, testVars, C, lastTemperature, surfacePosition, grid, clusterPartials,
                    network, mutationHandler, burstingHandler, advectionLocation, F >>

\* computeDiagonalJacobian after MPI_Allreduce returned
ComputeDiagonalJacobianEnd(p) ==
    /\ pc[p] = "reduced"
    /\ cur[p].op = "computeDiagonalJacobian"
    /\ Store(p, computeDiagonalJacobian(Pack(p), cur[p], xs(p), xm(p), totalHeConc[p]))
    /\ pc' = [pc EXCEPT ![p] = "ready"]
    /\ UNCHANGED << cfgVars, testVars, C, cur, heConc, totalHeConc, nReduce, callNo, nReducing,
                    calls, nDecided >>

\* MPI_Allreduce(&heConc, &totalHeConc, 1, MPI_DOUBLE, MPI_SUM, MPI_COMM_WORLD):
\* it returns, on every partition, once every partition has called it.
Allreduce ==
    /\ \A p \in Parts : pc[p] = "reduce"
    /\ totalHeConc' = [p \in Parts |-> SumOver(heConc, Parts)]
    /\ pc' = [p \in Parts |-> "reduced"]
    /\ UNCHANGED << cfgVars, testVars, C, handlerVars, cur, heConc, nReduce, callNo, nReducing,
                    calls, nDecided >>

Step(p) ==
    \/ CreateSolverContext(p)
    \/ UpdateConcentrationBegin(p)
    \/ UpdateConcentrationEnd(p)
    \/ ComputeOffDiagonalJacobian(p)
    \/ ComputeDiagonalJacobianBegin(p)
    \/ ComputeDiagonalJacobianEnd(p)

Next == Allreduce \/ \E p \in Parts : Step(p)

Spec == Init /\ [][Next]_vars

\* The same handlers over a network that lists its reactants in any of the
\* orders.
OrderInit ==
    /\ InitHandlers
    /\ networkFile = NoFile
    /\ vacancySize = 1
    /\ initialVConc = 0
    /\ getAllOrder \in ReactantOrders

OrderSpec == OrderInit /\ [][Next]_vars

\* ------------------------------------------------------------ the start-up
\* The lists of pairs a network file may hold for the grid points.
SnapshotPoints ==
    { [i \in Points |->
          CASE i = 1 -> << << 0, 5 >>, << 3, 6 >> >>
            [] i = 2 -> << << 1, 7 >> >>
            [] OTHER -> << >>],
      [i \in Points |-> << << 1, 4 + i >>, << 5, 2 >> >>] }

\* The network files: none written yet, or one with a concentration group.
NetworkFiles ==
    {NoFile} \cup
    [hasConcentrationGroup : {TRUE}, surface1D : {0, 1}, gridPoints : SnapshotPoints]

\* The start of a run, cold or from a network file, for any network and any
\* configured initial vacancy concentration.
StartInit ==
    /\ InitHandlers
    /\ networkFile \in NetworkFiles
    /\ vacancySize \in {1, 2}
    /\ initialVConc \in {0, 3}
    /\ getAllOrder = ById

StartNext == \E p \in Parts : CreateSolverContext(p) \/ InitializeConcentration(p)

StartSpec == StartInit /\ [][StartNext]_vars

\* ------------------------------------------- the connectivity test (tests/)
\* SimpleReactionNetwork.cpp, line 27
maxClusterSize == 10

Cluster(type, he, v, i) == [type |-> type, numHe |-> he, numV |-> v, numI |-> i]

\* Mutant: the mixed clusters stay below the maximum size.
HeVLoopTest_Below(he, v) == he + v < maxClusterSize

\* SimpleReactionNetwork.cpp, line 64: the test of the inner loop.
HeVLoopTest(he, v) == he + v <= maxClusterSize

\* Lines 31-37: one He cluster is added.
AddHeCluster ==
    /\ tpc = "He"
    /\ reactants' = Append(reactants, Cluster("He", numHe, 0, 0))
    /\ IF numHe + 1 <= maxClusterSize
       THEN numHe' = numHe + 1 /\ UNCHANGED tpc
       ELSE numHe' = 1 /\ tpc' = "V"
    /\ UNCHANGED << cfgVars, handlerVars, ctlVars, C, numV, numI,
                    reactionConnectivity, testI, failed >>

\* Lines 40-46: one vacancy cluster is added.
AddVCluster ==
    /\ tpc = "V"
    /\ reactants' = Append(reactants, Cluster("V", 0, numV, 0))
    /\ IF numV + 1 <= maxClusterSize
       THEN numV' = numV + 1 /\ UNCHANGED tpc
       ELSE numV' = 1 /\ tpc' = "I"
    /\ UNCHANGED << cfgVars, handlerVars, ctlVars, C, numHe, numI,
                    reactionConnectivity, testI, failed >>

\* The vacancy counts from v on whose inner loop runs at least once.
NextMixed(v) == {w \in v .. maxClusterSize : HeVLoopTest(1, w)}

\* Lines 49-56: one interstitial cluster is added.  After the last one the
\* loops of the mixed clusters start (line 63).
AddInterstitialCluster ==
    /\ tpc = "I"
    /\ reactants' = Append(reactants, Cluster("I", 0, 0, numI))
    /\ IF numI + 1 <= maxClusterSize
       THEN numI' = numI + 1 /\ UNCHANGED tpc
       ELSE numI' = 1 /\ tpc' = IF NextMixed(1) = {} THEN "built" ELSE "HeV"
    /\ UNCHANGED << cfgVars, handlerVars, ctlVars, C, numHe, numV,
                    reactionConnectivity, testI, failed >>

\* Lines 63-71: one HeV cluster is added.
AddHeVCluster ==
    /\ tpc = "HeV"
    /\ reactants' = Append(reactants, Cluster("HeV", numHe, numV, 0))
    /\ IF HeVLoopTest(numHe + 1, numV)
       THEN numHe' = numHe + 1 /\ UNCHANGED << numV, tpc >>
       ELSE /\ numHe' = 1
            /\ IF NextMixed(numV + 1) = {}
               THEN numV' = 1 /\ tpc' = "built"
               ELSE /\ numV' = CHOOSE w \in NextMixed(numV + 1) :
                                  \A u \in NextMixed(numV + 1) : w <= u
                    /\ UNCHANGED tpc
    /\ UNCHANGED << cfgVars, handlerVars, ctlVars, C, numI, reactionConnectivity,
                    testI, failed >>

\* PSICluster::getConnectivity of a vacancy cluster with the dissociations
\* disabled: it combines with a helium or a vacancy cluster when the product
\* is within the maximum size, with every interstitial cluster, and with a
\* mixed cluster only when it is a single vacancy.
getConnectivity(reactant, all) ==
    [k \in 1 .. Len(all) |->
        LET other == all[k]
        IN  CASE other.type = "He" ->
                     IF other.numHe + reactant.numV <= maxClusterSize THEN 1 ELSE 0
              [] other.type = "V" ->
                     IF other.numV + reactant.numV <= maxClusterSize THEN 1 ELSE 0
              [] other.type = "I" -> 1
              [] OTHER ->
                     IF /\ reactant.numV = 1
                        /\ other.numHe + other.numV + 1 <= maxClusterSize
                     THEN 1 ELSE 0]

\* network->get(type, size) for a vacancy cluster
getVacancy(all, size) ==
    LET found == SelectSeq(all, LAMBDA r : r.type = "V" /\ r.numV = size)
    IN  found[1]

\* VClusterTester.cpp, lines 49-69
connectivityExpected ==
    \* He
    << 1, 1, 1, 1, 1, 1, 1, 1, 0, 0 >> \o
    \* V
    << 1, 1, 1, 1, 1, 1, 1, 1, 0, 0 >> \o
    \* I
    << 1, 1, 1, 1, 1, 1, 1, 1, 1, 1 >> \o
    \* HeV
    << 0, 0, 0, 0, 0, 0, 0, 0, 0, 0, 0, 0, 0, 0, 0, 0, 0, 0, 0, 0, 0,
       0, 0, 0, 0, 0, 0, 0, 0, 0, 0, 0, 0, 0, 0, 0, 0, 0, 0, 0, 0, 0,
       0, 0, 0 >> \o
    \* HeI
    << 0, 0, 0, 0, 0, 0, 0, 0, 0, 0, 0, 0, 0, 0, 0, 0, 0, 1, 1, 1, 1,
       1, 1, 1, 1, 1, 1, 1, 1, 1, 1, 1, 1, 1, 1, 1, 1, 1, 1, 1, 1, 1,
       1, 1, 1 >>

\* VClusterTester.cpp, lines 33-45: the network is obtained and the
\* connectivity array of the vacancy cluster of size 2 is asked for.
GetConnectivity ==
    /\ tpc = "built"
    /\ reactionConnectivity' = getConnectivity(getVacancy(reactants, 2), reactants)
    /\ testI' = 0
    /\ tpc' = IF Len(reactants) > 0 THEN "check" ELSE "done"
    /\ UNCHANGED << cfgVars, handlerVars, ctlVars, C, reactants, numHe, numV, numI,
                    failed >>

\* Lines 71-74: BOOST_REQUIRE_EQUAL on one entry; a failure ends the test.
RequireEqual ==
    /\ tpc = "check"
    /\ IF reactionConnectivity[testI + 1] = connectivityExpected[testI + 1]
       THEN /\ testI' = testI + 1
            /\ tpc' = IF testI + 1 < Len(reactionConnectivity) THEN "check" ELSE "done"
            /\ UNCHANGED failed
       ELSE /\ failed' = TRUE
            /\ tpc' = "done"
            /\ UNCHANGED testI
    /\ UNCHANGED << cfgVars, handlerVars, ctlVars, C, reactants, numHe, numV, numI,
                    reactionConnectivity >>

TestNext ==
    \/ AddHeCluster
    \/ AddVCluster
    \/ AddInterstitialCluster
    \/ AddHeVCluster
    \/ GetConnectivity
    \/ RequireEqual

TestSpec == Init /\ [][TestNext]_vars

\* ------------------------------------------------------------- vocabulary
\* The grid points partition p owns.
Owned(p) == xs(p) .. (xs(p) + xm(p) - 1)

\* The boundary points and the active points, as the handler of p sees them.
Boundary(p, xi) == xi <= surfacePosition[p] \/ xi = NX - 1

Active(p, xi) == ~Boundary(p, xi)

\* Partition p has returned from a call of op; log[p] and F[p] are its.
Finished(p, op) == pc[p] = "ready" /\ cur[p].op = op

Walks == {"updateConcentration", "computeOffDiagonalJacobian",
          "computeDiagonalJacobian"}

\* The flux and derivative queries made on the network.
Queries == {"getTotalFlux", "getMomentumFlux", "getPartialDerivatives",
            "getMomentPartialDerivatives"}

\* The contributions to the flux vector, and their place in the order.
Rank(call) ==
    CASE call = "incidentFlux"        -> 1
      [] call = "computeDiffusion"    -> 2
      [] call = "computeAdvection"    -> 3
      [] call = "computeTrapMutation" -> 4
      [] call = "computeBursting"     -> 5
      [] call = "getTotalFlux"        -> 6
      [] call = "getMomentumFlux"     -> 7
      [] OTHER                        -> 0

Contributions == {"incidentFlux", "computeDiffusion", "computeAdvection",
                  "computeTrapMutation", "computeBursting", "getTotalFlux",
                  "getMomentumFlux"}

\* The positions of the log of p that hold a call of one of the names, at xi.
At(p, xi, names) ==
    {i \in DOMAIN log[p] : log[p][i].xi = xi /\ log[p][i].call \in names}

\* ------------------------------------------------------------------ claims
\* C1: after updateConcentration, at every owned boundary grid point
\* (xi <= surfacePosition or xi = xSize - 1) and for every DOF, the output
\* flux equals the input concentration exactly, whatever F held on entry.
C1_BoundaryIdentity ==
    \A p \in Parts :
        Finished(p, "updateConcentration") =>
            \A xi \in Owned(p) :
                Boundary(p, xi) =>
                    \A d \in DOFs : F[p][xi][d] = localC(cur[p])[xi][d]

\* C1 witness: a finished updateConcentration that owns a boundary point at
\* which F on entry differed from the concentrations, beside an active point.
C1_Witness ==
    \E p \in Parts :
        /\ Finished(p, "updateConcentration")
        /\ \E xi \in Owned(p) :
            /\ Boundary(p, xi)
            /\ \E d \in DOFs : localC(cur[p])[xi][d] # 0
            /\ \A d \in DOFs : enteringF(cur[p])[xi][d] # localC(cur[p])[xi][d]
        /\ \E xi \in Owned(p) : Active(p, xi)

\* C2: in updateConcentration and computeDiagonalJacobian, whenever a flux
\* or derivative query is made on the network at a grid point, the network
\* holds the concentrations of that grid point of that call: the last
\* updateConcentrationsFromArray loaded them; no query reads what an
\* earlier grid point or an earlier pass left.
C2_QueriesReadOwnPoint ==
    \A p \in Parts :
        \A i \in DOMAIN log[p] :
            log[p][i].call \in Queries =>
                /\ log[p][i].loaded = << cur[p].no, log[p][i].xi >>
                /\ cur[p].op \in {"updateConcentration", "computeDiagonalJacobian"}

\* C2 witness: a second or later pass over at least two active points of
\* one partition that made queries, on a network loaded by an earlier pass.
C2_Witness ==
    \E p \in Parts :
        /\ Finished(p, "computeDiagonalJacobian")
        /\ cur[p].no >= 2
        /\ \E xi, xj \in Owned(p) :
            /\ xi < xj
            /\ At(p, xi, Queries) # {}
            /\ At(p, xj, Queries) # {}
        /\ \E i \in DOMAIN log[p] :
            /\ log[p][i].call = "updateConcentrationsFromArray"
            /\ log[p][i].loaded[1] \notin {0, cur[p].no}

\* C3: at every active grid point updateConcentration applies the
\* contributions in the order incident flux, diffusion, advection (every
\* handler, in list order), trap-mutation, bursting, reaction flux of every
\* reactant, moment flux of every super cluster: each kind is applied, and
\* none of a later kind before one of an earlier kind at the same point.
C3_HandlerOrder ==
    \A p \in Parts :
        Finished(p, "updateConcentration") =>
            \A xi \in Owned(p) :
                Active(p, xi) =>
                    /\ \A k \in Contributions : At(p, xi, {k}) # {}
                    /\ \A i, j \in At(p, xi, Contributions) :
                        i < j => Rank(log[p][i].call) <= Rank(log[p][j].call)
                    /\ \A i, j \in At(p, xi, {"computeAdvection"}) :
                        i < j => log[p][i].arg[1] < log[p][j].arg[1]
                    /\ Cardinality(At(p, xi, {"computeAdvection"})) = NumAdvec
                    /\ Cardinality(At(p, xi, {"getTotalFlux"})) = networkSize
                    /\ Cardinality(At(p, xi, {"getMomentumFlux"})) = Len(superClusters)

\* C3 witness: a finished updateConcentration with an active point.
C3_Witness ==
    \E p \in Parts :
        /\ Finished(p, "updateConcentration")
        /\ \E xi \in Owned(p) :
            /\ Active(p, xi)
            /\ Cardinality(At(p, xi, Contributions)) >= 7

\* The calls that refresh the rates, and everything a handler or the network
\* is asked to compute at a point, with the entries written to the matrix.
Refreshes == {"setTemperature", "updateTrapMutationRate", "updateBurstingRate"}

Computations ==
    Contributions \cup Queries
    \cup {"computePartialsForDiffusion", "computePartialsForAdvection",
          "computePartialsForTrapMutation", "computePartialsForBursting",
          "MatSetValuesStencil.diffusion", "MatSetValuesStencil.advection",
          "MatSetValuesStencil.reactions", "MatSetValuesStencil.trapMutation",
          "MatSetValuesStencil.bursting"}

Ingesting == {"updateConcentration", "computeDiagonalJacobian"}

\* C4 as claimed: in updateConcentration and computeDiagonalJacobian the
\* ingestion of the point's concentrations precedes any setTemperature call
\* made for that point.
C4_IngestBeforeSetTemperature ==
    \A p \in Parts :
        cur[p].op \in Ingesting =>
            \A i \in DOMAIN log[p] :
                log[p][i].call = "setTemperature" =>
                    \E j \in At(p, log[p][i].xi, {"updateConcentrationsFromArray"}) :
                        j < i

\* C4 as amended: at every active grid point of updateConcentration and of
\* computeDiagonalJacobian the driver first refreshes the temperature-
\* dependent rates if the temperature changed (setTemperature, then the
\* mutation and bursting rates), then ingests the point's concentrations,
\* once, then invokes the handlers: every setTemperature call made for the
\* point precedes the ingestion, and the ingestion precedes every handler
\* contribution and query.
C4_RefreshThenIngestThenHandlers ==
    \A p \in Parts :
        (cur[p].op \in Ingesting /\ pc[p] = "ready") =>
            \A xi \in Owned(p) :
                Active(p, xi) =>
                    /\ Cardinality(At(p, xi, {"updateConcentrationsFromArray"})) = 1
                    /\ \A k \in At(p, xi, {"updateConcentrationsFromArray"}) :
                        /\ \A i \in At(p, xi, Refreshes) : i < k
                        /\ \A j \in At(p, xi, Computations) : k < j
                    /\ \A i \in At(p, xi, {"setTemperature"}) :
                        \A j \in At(p, xi, {"updateTrapMutationRate", "updateBurstingRate"}) :
                            i < j

\* C4 witness: a finished pass that applied a new temperature at an active
\* point and then ingested the point.
C4_Witness ==
    \E p \in Parts :
        /\ cur[p].op \in Ingesting
        /\ pc[p] = "ready"
        /\ \E xi \in Owned(p) :
            /\ At(p, xi, {"setTemperature"}) # {}
            /\ At(p, xi, {"updateConcentrationsFromArray"}) # {}

\* The getTemperature calls of the log of p between which none was made.
NextVisit(p, i, j) ==
    /\ i < j
    /\ log[p][i].call = "getTemperature"
    /\ log[p][j].call = "getTemperature"
    /\ \A k \in DOMAIN log[p] : (i < k /\ k < j) => log[p][k].call # "getTemperature"

\* C5: in every per-point walk, setTemperature(T) is called at an active
\* point if and only if T differs from the cached lastTemperature, and
\* lastTemperature is then T; so setTemperature is never called with the
\* temperature it was last called with, and lastTemperature is the last
\* temperature applied to the network once one has been applied.
C5_TemperatureCache ==
    \A p \in Parts :
        /\ network[p].temperature # Never =>
               lastTemperature[p] = network[p].temperature
        /\ \A i \in DOMAIN log[p] :
            /\ log[p][i].call = "setTemperature" =>
                   /\ log[p][i].arg[1] # log[p][i].netT
                   /\ log[p][i].arg[1] # log[p][i].lastT
            /\ (cur[p].op \in Walks /\ log[p][i].call = "setTemperature") =>
                   /\ i > 1
                   /\ log[p][i - 1].call = "getTemperature"
                   /\ log[p][i - 1].xi = log[p][i].xi
            /\ (cur[p].op \in Walks /\ log[p][i].call = "getTemperature") =>
                   /\ (log[p][i].arg[1] # log[p][i].lastT) <=>
                          /\ i + 1 \in DOMAIN log[p]
                          /\ log[p][i + 1].call = "setTemperature"
                          /\ log[p][i + 1].xi = log[p][i].xi
                          /\ log[p][i + 1].arg = log[p][i].arg
                   /\ \A j \in DOMAIN log[p] :
                          NextVisit(p, i, j) => log[p][j].lastT = log[p][i].arg[1]
                   /\ (\A j \in DOMAIN log[p] : j > i => log[p][j].call # "getTemperature")
                          => lastTemperature[p] = log[p][i].arg[1]

\* C5 witness: a walk over two active points, the first of which changed the
\* temperature and the second of which did not.
C5_Witness ==
    \E p \in Parts :
        /\ cur[p].op \in Walks
        /\ \E i, j \in DOMAIN log[p] :
            /\ NextVisit(p, i, j)
            /\ log[p][i + 1].call = "setTemperature"
            /\ log[p][j].arg[1] = log[p][j].lastT
            /\ log[p][j].netT # Never

\* C6: in each per-point walk updateTrapMutationRate and updateBurstingRate
\* are called at an active point exactly when setTemperature is called at
\* that point, right after it (so on the rate constants of the new
\* temperature), and before any handler contribution or partial derivative
\* is computed for the point.
C6_RatesFollowTemperature ==
    \A p \in Parts :
        cur[p].op \in Walks =>
            \A i \in DOMAIN log[p] :
                /\ log[p][i].call = "setTemperature" =>
                       /\ i + 2 \in DOMAIN log[p]
                       /\ log[p][i + 1].call = "updateTrapMutationRate"
                       /\ log[p][i + 2].call = "updateBurstingRate"
                       /\ log[p][i + 1].xi = log[p][i].xi
                       /\ log[p][i + 2].xi = log[p][i].xi
                       /\ log[p][i + 1].netT = log[p][i].arg[1]
                       /\ log[p][i + 2].netT = log[p][i].arg[1]
                /\ log[p][i].call = "updateTrapMutationRate" =>
                       /\ i > 1
                       /\ log[p][i - 1].call = "setTemperature"
                       /\ log[p][i - 1].xi = log[p][i].xi
                /\ log[p][i].call = "updateBurstingRate" =>
                       /\ i > 1
                       /\ log[p][i - 1].call = "updateTrapMutationRate"
                       /\ log[p][i - 1].xi = log[p][i].xi
                /\ log[p][i].call \in Refreshes =>
                       \A j \in At(p, log[p][i].xi, Computations) : i < j

\* C6 witness: a walk of computeOffDiagonalJacobian refreshed the rates at an
\* active point and computed partial derivatives there.
C6_Witness ==
    \E p \in Parts :
        /\ cur[p].op = "computeOffDiagonalJacobian"
        /\ \E xi \in Owned(p) :
            /\ At(p, xi, {"updateBurstingRate"}) # {}
            /\ At(p, xi, Computations) # {}

\* Partition q can take a step.
CanStep(q) ==
    \/ pc[q] \in {"new", "reduced"}
    \/ pc[q] = "ready" /\ NextCalls(q) # {}

\* C7: every partition issues MPI_Allreduce exactly once per call of
\* updateConcentration and of computeDiagonalJacobian, however many of its
\* grid points are active (none included); and, all partitions making the
\* same calls, no partition is left waiting in the reduction: whenever a
\* partition waits in its n-th reduction, every other partition waits in its
\* n-th reduction too, or has issued fewer, has not yet entered the call and
\* can take a step.
C7_OneReductionPerCall ==
    \A p \in Parts :
        /\ nReduce[p] = nReducing[p]
        /\ pc[p] = "reduce" =>
            \A q \in Parts :
                \/ pc[q] = "reduce" /\ nReduce[q] = nReduce[p] /\ cur[q] = cur[p]
                \/ /\ pc[q] # "reduce"
                   /\ nReduce[q] < nReduce[p]
                   /\ callNo[q] < callNo[p]
                   /\ CanStep(q)

\* C7 witness: a partition without any active point has been through the
\* reduction, with a partition that owns active points.
C7_Witness ==
    \E p, q \in Parts :
        /\ pc[p] = "reduced"
        /\ nReduce[p] >= 1
        /\ \A xi \in Owned(p) : Boundary(p, xi)
        /\ \E xi \in Owned(q) : Active(q, xi)

\* The grid points of the whole grid near the surface, and the helium the
\* HeV clusters hold there in the concentrations of the call p is in.
NearSurfacePoints(p) ==
    {xi \in Points :
        /\ surfacePosition[p] < xi
        /\ xi < NX - 1
        /\ grid[p][xi] - grid[p][surfacePosition[p]] <= NearSurface}

HeliumNearSurface(p) ==
    LET terms == (1 .. Len(bubbles)) \X NearSurfacePoints(p)
    IN  SumOver([k \in terms |->
                    localC(cur[p])[k[2]][bubbles[k[1]].id - 1] * bubbles[k[1]].he
                        * (grid[p][k[2]] - grid[p][k[2] - 1])],
                terms)

\* C8: the scalar passed to updateDisappearingRate is the same on every
\* partition and is the sum, over all HeV clusters b and all grid points xi
\* of the whole grid with surfacePosition < xi < xSize - 1 and
\* grid[xi] - grid[surfacePosition] <= 2, of
\* conc[xi][id(b) - 1] * heComp(b) * (grid[xi] - grid[xi - 1]), every such
\* point counted once, however the grid is split.
C8_DisappearingRateIsGlobalSum ==
    \A p \in Parts :
        /\ pc[p] = "reduced" => totalHeConc[p] = HeliumNearSurface(p)
        /\ \A i \in DOMAIN log[p] :
            log[p][i].call = "updateDisappearingRate" =>
                /\ log[p][i].arg[1] = HeliumNearSurface(p)
                /\ \A q \in Parts :
                    (cur[q] = cur[p] /\ pc[q] = "ready") =>
                        mutationHandler[q].disappearingRate = log[p][i].arg[1]

\* C8 witness: a call has passed a sum to updateDisappearingRate to which two
\* partitions contributed helium.
C8_Witness ==
    \E p, q \in Parts :
        /\ p # q
        /\ pc[p] = "ready"
        /\ pc[q] = "reduced"
        /\ cur[p] = cur[q]
        /\ heConc[p] > 0
        /\ heConc[q] > 0
        /\ \E i \in DOMAIN log[p] :
            /\ log[p][i].call = "updateDisappearingRate"
            /\ log[p][i].arg[1] = heConc[p] + heConc[q]

\* The reaction rows written by computeDiagonalJacobian.
ReactionRows == {"MatSetValuesStencil.reactions"}

PartialQueries == {"getPartialDerivatives", "getMomentPartialDerivatives"}

\* C9: in computeDiagonalJacobian, after each row (concrete reactant, super
\* cluster, moment) is transcribed, every entry of clusterPartials listed in
\* the row's column list has been copied out (the matrix gets the partial
\* derivatives of that row at that point) and reset to 0; the buffer is all
\* zero before every get*PartialDerivatives call, at every row, point and
\* pass.
C9_ScratchBufferZeroed ==
    \A p \in Parts :
        /\ \A d \in DOMAIN clusterPartials[p] : clusterPartials[p][d] = 0
        /\ \A i \in DOMAIN log[p] :
            /\ log[p][i].call \in PartialQueries => log[p][i].clean
            /\ log[p][i].call \in ReactionRows =>
                /\ log[p][i].clean
                /\ i > 1
                /\ log[p][i - 1].call \in PartialQueries
                /\ log[p][i - 1].arg[1] = log[p][i].arg[2]
                /\ Len(log[p][i].vals) = Len(dFillMap[log[p][i].arg[2]])
                /\ \A j \in DOMAIN log[p][i].vals :
                    /\ log[p][i].cols[j] = << log[p][i].xi, dFillMap[log[p][i].arg[2]][j] >>
                    /\ log[p][i].vals[j] =
                           PartialValue([network |-> [conc |-> localC(cur[p])[log[p][i].xi]]],
                                        log[p][i].arg[2],
                                        dFillMap[log[p][i].arg[2]][j])

\* C9 witness: a computeDiagonalJacobian over two active points of one
\* partition, every row of which was transcribed.
C9_Witness ==
    \E p \in Parts :
        /\ Finished(p, "computeDiagonalJacobian")
        /\ \E xi, xj \in Owned(p) :
            /\ xi < xj
            /\ Cardinality(At(p, xi, ReactionRows)) = dof
            /\ Cardinality(At(p, xj, ReactionRows)) = dof
            /\ \E i \in At(p, xj, ReactionRows) :
                \E j \in DOMAIN log[p][i].vals : log[p][i].vals[j] > 1

\* The temperature at the origin at time 0, which createSolverContext applies.
InitialT == getTemperature(temperatureHandler, 0, 0)

\* C10: createSolverContext applies the initial temperature to the network
\* (when it differs from the reset cached value 0) before it calls
\* reinitializeConnectivities, calls reinitializeConnectivities exactly
\* once, and no evaluation pass calls it again, even when the temperature
\* changes.
C10_ReinitializeOnce ==
    \A p \in Parts :
        /\ network[p].nReinit = IF pc[p] = "new" THEN 0 ELSE 1
        /\ cur[p].op = "createSolverContext" =>
               Cardinality(At(p, Never, {"reinitializeConnectivities"})) = 1
        /\ \A i \in DOMAIN log[p] :
               log[p][i].call = "reinitializeConnectivities" =>
                   /\ cur[p].op = "createSolverContext"
                   /\ log[p][i].netT = IF InitialT # 0 THEN InitialT ELSE Never
                   /\ InitialT # 0 =>
                          \E j \in DOMAIN log[p] :
                              /\ j < i
                              /\ log[p][j].call = "setTemperature"
                              /\ log[p][j].arg = << InitialT >>

\* C10 witness: a pass after a createSolverContext that applied an initial
\* temperature has applied another temperature at a grid point.
C10_Witness ==
    \E p \in Parts :
        /\ cur[p].op \in Walks
        /\ InitialT # 0
        /\ network[p].nReinit = 1
        /\ \E i \in DOMAIN log[p] :
            /\ log[p][i].call = "setTemperature"
            /\ log[p][i].netT = InitialT

\* The handler of p at point xi of the call it is in, the network holding the
\* point's concentrations and the temperature it had when it ingested them,
\* and the output vector zeros: what a handler leaves in it is what the
\* handler adds.
AtPoint(p, xi) ==
    LET ingested == At(p, xi, {"updateConcentrationsFromArray"})
    IN  [Pack(p) EXCEPT !.F = [x \in Points |-> [d \in DOFs |-> 0]],
                        !.log = << >>,
                        !.network.conc = localC(cur[p])[xi],
                        !.network.temperature =
                            log[p][CHOOSE i \in ingested : TRUE].netT]

\* The sum of the contributions of the seven kinds to DOF d at point xi,
\* from what the handlers leave in the output vector of z at the point.
SumOfContributions(p, xi, d, z, diffusion, advection, mutation, bursting) ==
    LET reacting == {i \in 1 .. networkSize : allReactants[i].id - 1 = d}
        moments == {i \in 1 .. Len(superClusters) : superClusters[i].mom - 1 = d}
    IN  (IF d = fluxIndex
         THEN getIncidentFluxVec(cur[p].ftime, surfacePosition[p])[xi - surfacePosition[p]]
         ELSE 0)
        + diffusion[d]
        + SumOver([l \in DOMAIN advection |-> advection[l][d]], DOMAIN advection)
        + mutation[d]
        + bursting[d]
        + SumOver([i \in reacting |-> getTotalFlux(z, allReactants[i])], reacting)
        + SumOver([i \in moments |-> getMomentumFlux(z, superClusters[i])], moments)

\* The flux vector of point xi after the contributions are added to the
\* values it held on entry.
Accumulated(p, xi, z, diffusion, advection, mutation, bursting) ==
    [d \in DOFs |->
        enteringF(cur[p])[xi][d]
            + SumOfContributions(p, xi, d, z, diffusion, advection, mutation, bursting)]

\* The contributions of the seven kinds at point xi, computed from z and
\* added to the values held on entry.
ContributionsFrom(p, xi, z, concs) ==
    Accumulated(p, xi, z,
                computeDiffusion(z, xi, concs).F[xi],
                [l \in 0 .. (NumAdvec - 1) |-> computeAdvection(z, l, xi, concs).F[xi]],
                computeTrapMutation(z, xi, concs).F[xi],
                computeBursting(z, xi, concs).F[xi])

ContributionsTo(p, xi) == ContributionsFrom(p, xi, AtPoint(p, xi), localC(cur[p]))

\* C11: at an active grid point updateConcentration only adds to the output
\* flux: for every DOF d the final F[xi][d] is the value held on entry plus
\* the contributions of incident flux, diffusion, advection, trap-mutation,
\* bursting, reaction flux and moment flux to d; no step overwrites or
\* resets what an earlier step wrote.
C11_FluxIsCumulative ==
    \A p \in Parts :
        Finished(p, "updateConcentration") =>
            \A xi \in Owned(p) :
                Active(p, xi) => F[p][xi] = ContributionsTo(p, xi)

\* C11 witness: a finished updateConcentration with an active point at which
\* the helium DOF got the incident flux, a nonzero diffusion and a nonzero
\* reaction flux and another DOF a nonzero bursting contribution, and an
\* active point with a nonzero trap-mutation.
C11_Witness ==
    \E p \in Parts :
        /\ Finished(p, "updateConcentration")
        /\ \E xi \in Owned(p) :
            /\ Active(p, xi)
            /\ LET z == AtPoint(p, xi)
                   concs == localC(cur[p])
               IN  /\ computeDiffusion(z, xi, concs).F[xi][fluxIndex] # 0
                   /\ getTotalFlux(z, allReactants[1]) # 0
                   /\ computeBursting(z, xi, concs).F[xi][1] # 0
                   /\ F[p][xi][fluxIndex] # enteringF(cur[p])[xi][fluxIndex]
        /\ \E xi \in Owned(p) :
            /\ Active(p, xi)
            /\ computeTrapMutation(AtPoint(p, xi), xi, localC(cur[p])).F[xi][fluxIndex] # 0

\* The number of calls of one of the names at the grid point of the i-th
\* call of the log of p, up to and including the i-th.
NthAt(p, i, names) ==
    Cardinality({j \in At(p, log[p][i].xi, names) : j <= i})

DiffusionRowsOf == {"MatSetValuesStencil.diffusion"}

\* C12: for each diffusing cluster DOF c at an active grid point xi,
\* computeOffDiagonalJacobian adds exactly three entries to row (xi, c), at
\* columns (xi, c), (xi - 1, c) and (xi + 1, c) in that order, with the values
\* diffVals[3i .. 3i + 2]; a diffusion entry never couples two DOFs and never
\* reaches beyond the two adjacent grid points.
C12_DiffusionStencil ==
    \A p \in Parts :
        /\ cur[p].op = "computeOffDiagonalJacobian" =>
               \A xi \in Owned(p) :
                   Active(p, xi) =>
                       Cardinality(At(p, xi, DiffusionRowsOf)) = Len(diffusing)
        /\ \A n \in DOMAIN log[p] :
               log[p][n].call \in DiffusionRowsOf =>
                   LET e == log[p][n]
                       i == NthAt(p, n, DiffusionRowsOf) - 1
                       c == diffusing[i + 1]
                       diffVals == computePartialsForDiffusion(
                                       [grid |-> grid[p],
                                        network |-> [temperature |-> e.netT]], e.xi)
                   IN  /\ i < Len(diffusing)
                       /\ e.arg = << e.xi, c >>
                       /\ e.cols = << << e.xi, c >>, << e.xi - 1, c >>, << e.xi + 1, c >> >>
                       /\ e.vals = << diffVals[3 * i + 1], diffVals[3 * i + 2],
                                      diffVals[3 * i + 3] >>
                       /\ \A k \in DOMAIN e.cols :
                           /\ e.cols[k][2] = e.arg[2]
                           /\ e.cols[k][1] \in {e.xi - 1, e.xi, e.xi + 1}
                           /\ e.cols[k][1] \in Points

\* C12 witness: a computeOffDiagonalJacobian wrote the row of the second
\* diffusing cluster at an active point, with other values than the first.
C12_Witness ==
    \E p \in Parts :
        /\ Finished(p, "computeOffDiagonalJacobian")
        /\ \E n, m \in DOMAIN log[p] :
            /\ n < m
            /\ log[p][n].call \in DiffusionRowsOf
            /\ log[p][m].call \in DiffusionRowsOf
            /\ log[p][n].xi = log[p][m].xi
            /\ Active(p, log[p][m].xi)
            /\ log[p][m].arg[2] = diffusing[2]
            /\ log[p][m].vals # log[p][n].vals

AdvectionRowsOf == {"MatSetValuesStencil.advection"}

\* The advection handlers of p, as the handler operators read them.
Advection(p) == [advectionLocation |-> advectionLocation[p]]

\* C13: for each advection handler and each of its advecting cluster DOFs c
\* at an active grid point xi, computeOffDiagonalJacobian adds exactly two
\* entries to row (xi, c): off the sink at columns (xi, c) and (xi + s, c);
\* on the sink at columns (xi - s, c) and (xi + s, c), with no entry for the
\* middle point; s is the first component of the handler's stencil there.
C13_AdvectionStencil ==
    \A p \in Parts :
        /\ cur[p].op = "computeOffDiagonalJacobian" =>
               \A xi \in Owned(p) :
                   Active(p, xi) =>
                       Cardinality(At(p, xi, AdvectionRowsOf)) = NumAdvec * Len(advecting)
        /\ \A n \in DOMAIN log[p] :
               log[p][n].call \in AdvectionRowsOf =>
                   LET e == log[p][n]
                       k == NthAt(p, n, AdvectionRowsOf) - 1
                       l == k \div Len(advecting)
                       i == k % Len(advecting)
                       c == advecting[i + 1]
                       position == grid[p][e.xi]
                       s == getStencilForAdvection(Advection(p), l, position)[1]
                       advecVals == computePartialsForAdvection(
                                        [network |-> [temperature |-> e.netT]], l, e.xi)
                   IN  /\ l < NumAdvec
                       /\ e.arg = << e.xi, c >>
                       /\ Len(e.cols) = 2
                       /\ e.vals = << advecVals[2 * i + 1], advecVals[2 * i + 2] >>
                       /\ IF isPointOnSink(Advection(p), l, position)
                          THEN /\ e.cols = << << e.xi - s, c >>, << e.xi + s, c >> >>
                               /\ \A j \in DOMAIN e.cols : e.cols[j][1] # e.xi
                          ELSE e.cols = << << e.xi, c >>, << e.xi + s, c >> >>

\* C13 witness: a computeOffDiagonalJacobian wrote, at an active point, the
\* row of a handler whose sink the point is on and the row of a handler whose
\* sink it is off.
C13_Witness ==
    \E p \in Parts :
        /\ Finished(p, "computeOffDiagonalJacobian")
        /\ \E n, m \in DOMAIN log[p] :
            /\ log[p][n].call \in AdvectionRowsOf
            /\ log[p][m].call \in AdvectionRowsOf
            /\ log[p][n].xi = log[p][m].xi
            /\ Active(p, log[p][n].xi)
            /\ log[p][n].cols[1][1] = log[p][n].xi
            /\ log[p][m].cols[1][1] # log[p][m].xi
            /\ \E l \in 0 .. (NumAdvec - 1) :
                isPointOnSink(Advection(p), l, grid[p][log[p][m].xi])

TrapMutationRowsOf == {"MatSetValuesStencil.trapMutation"}

BurstingRowsOf == {"MatSetValuesStencil.bursting"}

\* The type of the reactant of a DOF index.
TypeOf(d) == allReactants[d + 1].type

\* C14: the trap-mutation and bursting entries of the Jacobian are local: for
\* each of the nMutating triples returned at xi the driver writes exactly
\* three entries, in rows (xi, He), (xi, HeV), (xi, I), all in column
\* (xi, He); for each of the nBursting pairs exactly two entries, in rows
\* (xi, bubble), (xi, V), both in column (xi, bubble); no row or column is at
\* another grid point.
C14_LocalEntries ==
    \A p \in Parts :
        /\ Finished(p, "computeDiagonalJacobian") =>
               \A xi \in Owned(p) :
                   Active(p, xi) =>
                       /\ Cardinality(At(p, xi, TrapMutationRowsOf))
                              = 3 * computePartialsForTrapMutation(Pack(p), xi).n
                       /\ Cardinality(At(p, xi, BurstingRowsOf))
                              = 2 * computePartialsForBursting(Pack(p), xi).n
        /\ \A n \in DOMAIN log[p] :
            LET e == log[p][n]
            IN  /\ e.call \in TrapMutationRowsOf =>
                    LET k == NthAt(p, n, TrapMutationRowsOf) - 1
                        i == k \div 3
                        m == computePartialsForTrapMutation(Pack(p), e.xi)
                    IN  /\ i < m.n
                        /\ e.arg = << e.xi, m.indices[k + 1] >>
                        /\ e.cols = << << e.xi, m.indices[3 * i + 1] >> >>
                        /\ e.vals = << m.vals[k + 1] >>
                        /\ TypeOf(e.cols[1][2]) = "He"
                        /\ TypeOf(e.arg[2]) = << "He", "HeV", "I" >>[(k % 3) + 1]
                /\ e.call \in BurstingRowsOf =>
                    LET k == NthAt(p, n, BurstingRowsOf) - 1
                        i == k \div 2
                        b == computePartialsForBursting(Pack(p), e.xi)
                    IN  /\ i < b.n
                        /\ e.arg = << e.xi, b.indices[k + 1] >>
                        /\ e.cols = << << e.xi, b.indices[2 * i + 1] >> >>
                        /\ e.vals = << b.vals[k + 1] >>
                        /\ TypeOf(e.cols[1][2]) = "HeV"
                        /\ TypeOf(e.arg[2]) = << "HeV", "V" >>[(k % 2) + 1]

\* C14 witness: a computeDiagonalJacobian wrote the three entries of a
\* trap-mutating helium cluster and the entries of two bursting bubbles at an
\* active point.
C14_Witness ==
    \E p \in Parts :
        /\ Finished(p, "computeDiagonalJacobian")
        /\ \E xi \in Owned(p) :
            /\ Active(p, xi)
            /\ Cardinality(At(p, xi, TrapMutationRowsOf)) = 3
            /\ Cardinality(At(p, xi, BurstingRowsOf)) = 4
            /\ \E n \in At(p, xi, TrapMutationRowsOf) : log[p][n].arg # log[p][n].cols[1]

\* What initializeConcentration leaves at an owned grid point on a cold
\* start: the initial vacancy concentration at the single vacancy's DOF of an
\* active point, zero elsewhere.
ColdStart(p, xi, d) ==
    IF Active(p, xi) /\ vacancySize = 1 /\ allReactants[d + 1].type = "V"
    THEN initialVConc
    ELSE 0

\* Partition p has returned from initializeConcentration.
Started(p) == pc[p] = "started"

\* C15: on a cold start (no concentration group in the file), after
\* initializeConcentration every owned grid point has all its dof entries 0,
\* but the DOF (id - 1) of the size-1 vacancy cluster, which is initialVConc
\* at the active points; boundary points are all zero; when the network has
\* no size-1 vacancy cluster the seeding is skipped and every entry is 0.
C15_ColdStart ==
    \A p \in Parts :
        (Started(p) /\ ~hasConcentrationGroup) =>
            /\ \A xi \in Owned(p) :
                \A d \in DOFs :
                    C[p][xi][d] = IF d < networkSize THEN ColdStart(p, xi, d) ELSE 0
            /\ vacancySize # 1 =>
                   \A xi \in Owned(p) : \A d \in DOFs : C[p][xi][d] = 0

\* C15 witness: a cold start that seeded a nonzero vacancy concentration at
\* an active point and zeroed a boundary point, on a partition that owns both.
C15_Witness ==
    \E p \in Parts :
        /\ Started(p)
        /\ ~hasConcentrationGroup
        /\ \E xi, xb \in Owned(p) :
            /\ Active(p, xi)
            /\ Boundary(p, xb)
            /\ C[p][xi][vacancyIndex] = initialVConc
            /\ initialVConc # 0
            /\ \A d \in DOFs : C[p][xb][d] = 0

\* The value the network file lists for DOF d of grid point xi, 0 when it
\* lists none.
Listed(xi, d) ==
    LET pairs == {l \in DOMAIN readGridPoint(xi) : readGridPoint(xi)[l][1] = d}
    IN  IF pairs = {} THEN 0
        ELSE readGridPoint(xi)[CHOOSE l \in pairs : TRUE][2]

\* C16: the initial vacancy concentration is seeded only on a cold start:
\* when the file has a concentration group, after initializeConcentration
\* every (DOF index, value) pair listed for an owned grid point is stored at
\* that DOF of that point, every DOF not listed is 0, and no grid point
\* outside the owned range [xs, xs + xm) is written.
C16_SnapshotOnly ==
    \A p \in Parts :
        (Started(p) /\ hasConcentrationGroup) =>
            \A xi \in Points :
                IF xi \in Owned(p)
                THEN \A d \in DOFs : C[p][xi][d] = Listed(xi, d)
                ELSE C[p][xi] = enteringC[xi]

\* The entry the vacancy cluster of size 2 has for a cluster, as composition
\* arithmetic gives it.
PatternOfV2(r) ==
    CASE r.type = "He" -> IF r.numHe <= 8 THEN 1 ELSE 0
      [] r.type = "V"  -> IF r.numV <= 8 THEN 1 ELSE 0
      [] r.type = "I"  -> 1
      [] OTHER         -> 0

\* C17: in the simple test network (He, V and I clusters of sizes 1..10 and
\* HeV clusters with numHe + numV <= 10, registered in that order, 75
\* reactants), with the dissociations disabled, the connectivity array of the
\* vacancy cluster of size 2 has entry 1 for He_k and V_k exactly when
\* k <= 8, entry 1 for every I_k, and entry 0 for every HeV cluster; the test
\* finds every entry as it expects it.
C17_V2Connectivity ==
    /\ ~failed
    /\ tpc \in {"check", "done"} =>
        /\ Len(reactants) = 75
        /\ Len(reactionConnectivity) = 75
        /\ \A k \in 1 .. 75 :
            /\ reactants[k].type =
                   IF k <= 10 THEN "He" ELSE IF k <= 20 THEN "V"
                   ELSE IF k <= 30 THEN "I" ELSE "HeV"
            /\ k <= 10 => reactants[k].numHe = k
            /\ (10 < k /\ k <= 20) => reactants[k].numV = k - 10
            /\ (20 < k /\ k <= 30) => reactants[k].numI = k - 20
            /\ k > 30 => reactants[k].numHe + reactants[k].numV <= 10
            /\ reactionConnectivity[k] = PatternOfV2(reactants[k])
            /\ k <= testI => connectivityExpected[k] = PatternOfV2(reactants[k])

\* C17 witness: the test has compared all 75 entries.
C17_Witness ==
    /\ tpc = "done"
    /\ testI = 75
    /\ ~failed
    /\ reactionConnectivity[8] = 1
    /\ reactionConnectivity[9] = 0
    /\ reactionConnectivity[30] = 1
    /\ reactionConnectivity[31] = 0

JacobianPasses == {"computeOffDiagonalJacobian", "computeDiagonalJacobian"}

\* C18: in the Jacobian passes a boundary grid point (xi <= surfacePosition
\* or xi = xSize - 1) is skipped entirely: no matrix entry is added for a row
\* at that point, and no temperature refresh, rate refresh or network
\* ingestion is made for it.
C18_JacobianSkipsBoundary ==
    \A p \in Parts :
        cur[p].op \in JacobianPasses =>
            \A n \in DOMAIN log[p] :
                LET e == log[p][n]
                IN  /\ e.xi # Never =>
                        /\ e.xi \in Owned(p)
                        /\ Active(p, e.xi)
                    /\ e.cols # << >> =>
                        /\ e.arg[1] = e.xi
                        /\ Active(p, e.arg[1])

\* C18 witness: a partition that owns a boundary point and an active point
\* has finished a computeDiagonalJacobian that refreshed the temperature,
\* ingested the concentrations and wrote rows at the active point.
C18_Witness ==
    \E p \in Parts :
        /\ Finished(p, "computeDiagonalJacobian")
        /\ \E xb, xi \in Owned(p) :
            /\ Boundary(p, xb)
            /\ Active(p, xi)
            /\ At(p, xi, {"setTemperature"}) # {}
            /\ At(p, xi, {"updateConcentrationsFromArray"}) # {}
            /\ At(p, xi, ReactionRows) # {}
            /\ \A n \in DOMAIN log[p] : log[p][n].xi # xb

\* The calls that use the trap-mutation rate and the bursting rate.
RateUses == {"computeTrapMutation", "computeBursting",
             "computePartialsForTrapMutation", "computePartialsForBursting"}

\* C19: over createSolverContext followed by evaluation passes, whenever a
\* trap-mutation or bursting contribution or partial derivative is computed,
\* updateTrapMutationRate and updateBurstingRate have been called after the
\* most recent setTemperature of the network, the one made inside
\* createSolverContext included: the rates in use are never older than the
\* rate constants the network holds.
C19_RatesNeverStale ==
    \A p \in Parts :
        \A n \in DOMAIN log[p] :
            log[p][n].call \in RateUses =>
                log[p][n].rateT = << log[p][n].netT, log[p][n].netT >>

\* C20: at a grid point, a Jacobian pass asked for at solver time t evaluates
\* the network at the temperature updateConcentration evaluates it at for the
\* same point and the same solver time t (lines 338-340), whatever the
\* temperature handler's dependence on position and time.
C20_SameTemperatureAsUpdate ==
    \A p \in Parts :
        cur[p].op \in JacobianPasses =>
            \A n \in DOMAIN log[p] :
                log[p][n].call = "getTemperature" =>
                    log[p][n].arg[1] =
                        getTemperature(temperatureHandler,
                                       grid[p][log[p][n].xi], cur[p].ftime)

\* The flux additions updateConcentration made to DOF d at point xi from the
\* network: reaction flux and moment flux.
FluxRowsAt(p, xi, d) ==
    {n \in At(p, xi, {"getTotalFlux", "getMomentumFlux"}) : log[p][n].arg[1] = d}

\* The reaction partial-derivative rows computeDiagonalJacobian wrote for DOF
\* d at point xi.
JacobianRowsAt(p, xi, d) ==
    {n \in At(p, xi, ReactionRows) : log[p][n].arg[2] = d}

InRange(p, xi) ==
    /\ xi - 1 >= 0
    /\ xi + 1 <= xSize(Pack(p)) - 1
    /\ {xi - 1, xi + 1} \subseteq DOMAIN grid[p]
    /\ {xi - 1, xi + 1} \subseteq DOMAIN localC(cur[p])
    /\ xi - surfacePosition[p] >= 1
    /\ xi - surfacePosition[p] <= xSize(Pack(p)) - 1
    /\ xi - surfacePosition[p] \in
           DOMAIN getIncidentFluxVec(cur[p].ftime, surfacePosition[p])

\* C22: with 0 <= surfacePosition < xSize, at every grid point that passes
\* the boundary test of the per-point loops (the near-surface helium sum
\* included), and at every grid point at which a pass called a handler, the
\* neighbours xi - 1 and xi + 1 are grid points and the incident-flux index
\* xi - surfacePosition lies in 1 .. xSize - 1: no boundary point reaches a
\* neighbour access.
C22_NeighboursInRange ==
    \A p \in Parts :
        pc[p] # "new" =>
            /\ 0 <= surfacePosition[p]
            /\ surfacePosition[p] < xSize(Pack(p))
            /\ \A xi \in Owned(p) : ~IsBoundary(Pack(p), xi) => InRange(p, xi)
            /\ cur[p].op \in Walks =>
                   \A n \in DOMAIN log[p] :
                       log[p][n].xi # Never => InRange(p, log[p][n].xi)

\* C22 witness: a finished updateConcentration that computed the diffusion
\* and added the incident flux at the point next to the surface (its left
\* neighbour is the surface, its incident-flux index is 1) and computed the
\* diffusion at the point before the last one (its right neighbour is the
\* last grid point), after summing the helium next to the surface.
C22_Witness ==
    \E p \in Parts :
        /\ Finished(p, "updateConcentration")
        /\ \E n, m, k \in DOMAIN log[p] :
            /\ log[p][n].call = "computeDiffusion"
            /\ log[p][n].xi - 1 = surfacePosition[p]
            /\ log[p][m].call = "incidentFlux"
            /\ log[p][m].xi - surfacePosition[p] = 1
            /\ log[p][k].call = "computeDiffusion"
            /\ log[p][k].xi + 1 = xSize(Pack(p)) - 1
        /\ heConc[p] # 0

====
